---- MODULE Spec2Model ----
(***************************************************************************)
(* Model of the prompt autocompletion engine of k9s                        *)
(* (src/internal/model/history.go): the ternary search tree, the           *)
(* PromptAutocompleter built on four trees, and its refresh protocol.      *)
(*                                                                         *)
(* Strings are sequences of byte values.  A Go pointer *string is a pair   *)
(* <<array, index>> into mem, the heap of string arrays; nil is <<>>.      *)
(* A tree node pointer is an index into the tree's node heap; nil is 0.    *)
(***************************************************************************)
EXTENDS Integers, Sequences, FiniteSets, TLC

VARIABLES
    mem,              \* heap of []string backing arrays
    trie,             \* a standalone TernarySearchTree (SpecTree)
    lastOp,           \* the last operation applied and its arguments
    steps,            \* number of operations applied so far
    cmdHistoryTst,    \* PromptAutocompleter.cmdHistoryTst
    aliasTst,         \* PromptAutocompleter.aliasTst
    namespacesTst,    \* PromptAutocompleter.namespacesTst
    configSetTst,     \* PromptAutocompleter.configSetTst
    mode,             \* PromptAutocompleter.mode
    lastRefreshTime,  \* PromptAutocompleter.lastRefreshTime
    cluster,          \* PromptAutocompleter.cluster
    context,          \* PromptAutocompleter.context
    now,              \* the clock read by time.Now()
    updates,          \* number of UpdateFn invocations so far
    pc,               \* where each thread stands in its call
    loc,              \* the locals of each thread's call
    runs,             \* calls each thread has begun
    mxWriter,         \* p.mx: the thread holding the write side
    mxReaders,        \* p.mx: the threads holding the read side
    refreshMx,        \* p.refreshMx: the thread holding it
    forcedPending,    \* a cluster change has returned, UpdateFn was not invoked since
    lastDoneAt,       \* the clock at the last refreshed(), -1 before the first
    forcedSince,      \* forceRefresh() ran after the last refreshed()
    stable,           \* Suggest on the buckets as the last writer left them
    candidates,       \* what the last Candidates call returned
    buff,             \* CmdBuff.buff: the text typed so far
    suggestion,       \* CmdBuff.suggestion: the suggestion last handed to the listeners
    suggestions,      \* FishBuff.suggestions: the ring
    suggestionIndex,  \* FishBuff.suggestionIndex
    suggestMode,      \* FishBuff.suggestMode
    ret,              \* what the last ring call returned: <<string, ok>>
    hist,             \* the History: commands (a slice of mem), limit, crashed
    boot,             \* a construction of the autocompleter: refreshRate, lastRefreshTime - now, first Update
    prompt,           \* the Prompt widget and the active flag of its buffer
    fact              \* the informer Factory and its monitor

treeVars == <<trie>>
autoVars == <<cmdHistoryTst, aliasTst, namespacesTst, configSetTst, mode>>
refreshVars == <<lastRefreshTime, cluster, context, now, updates>>
spellVars == <<candidates>>
buffVars == <<buff, suggestion, suggestions, suggestionIndex, suggestMode, ret>>
hostVars == <<hist, boot, prompt, fact>>
concVars == <<pc, loc, runs, mxWriter, mxReaders, refreshMx, forcedPending,
              lastDoneAt, forcedSince, stable>>
vars == <<mem, trie, lastOp, steps, cmdHistoryTst, aliasTst, namespacesTst,
          configSetTst, mode, lastRefreshTime, cluster, context, now, updates,
          pc, loc, runs, mxWriter, mxReaders, refreshMx, forcedPending,
          lastDoneAt, forcedSince, stable, candidates, buff, suggestion,
          suggestions, suggestionIndex, suggestMode, ret, hist, boot, prompt, fact>>

----------------------------------------------------------------------------
(* Bytes and strings *)

SP == 32
ChUpperA == 65
ChUpperZ == 90
ChA == 97
ChB == 98
ChN == 110

Nil == <<>>

\* the strings used as inputs
sA == <<ChA>>
sAB == <<ChA, ChB>>
sB == <<ChB>>
sN == <<ChN>>
sNB == <<ChN, ChB>>
sA_N == <<ChA, SP, ChN>>
sA_NB == <<ChA, SP, ChN, ChB>>
s_A == <<SP, ChA>>

\* a < b for Go strings: bytewise lexicographic order
RECURSIVE StrLess(_, _)
StrLess(a, b) ==
    IF Len(b) = 0 THEN FALSE
    ELSE IF Len(a) = 0 THEN TRUE
    ELSE IF a[1] < b[1] THEN TRUE
    ELSE IF a[1] > b[1] THEN FALSE
    ELSE StrLess(Tail(a), Tail(b))

\* strings.HasPrefix(s, p)
HasPrefixStr(s, p) ==
    Len(p) <= Len(s) /\ SubSeq(s, 1, Len(p)) = p

\* strings.Index(s, sub) != -1
Contains(s, sub) ==
    \E i \in 0..(Len(s) - Len(sub)) : SubSeq(s, i + 1, i + Len(sub)) = sub

\* strings.ToLower on ASCII text
ToLower(s) ==
    [i \in 1..Len(s) |->
        IF s[i] >= ChUpperA /\ s[i] <= ChUpperZ THEN s[i] + (ChA - ChUpperA) ELSE s[i]]

\* strings.Fields: the maximal runs of non-space bytes
RECURSIVE Fields(_)
Fields(s) ==
    IF Len(s) = 0 THEN <<>>
    ELSE IF s[1] = SP THEN Fields(Tail(s))
    ELSE LET ends == {i \in 1..Len(s) : \A j \in 1..i : s[j] # SP}
             e == CHOOSE i \in ends : \A k \in ends : k <= i
         IN <<SubSeq(s, 1, e)>> \o Fields(SubSeq(s, e + 1, Len(s)))

\* strings.LastIndex(s, " "), 0-based, -1 when there is none
LastIndexSP(s) ==
    LET at == {i \in 1..Len(s) : s[i] = SP}
    IN IF at = {} THEN -1 ELSE (CHOOSE i \in at : \A k \in at : k <= i) - 1

\* sort of a []string (sort.Strings, and sort.Slice with matches[i] < matches[j])
RECURSIVE InsertSorted(_, _)
InsertSorted(sorted, w) ==
    IF Len(sorted) = 0 THEN <<w>>
    ELSE IF StrLess(w, sorted[1]) THEN <<w>> \o sorted
    ELSE <<sorted[1]>> \o InsertSorted(Tail(sorted), w)

RECURSIVE SortStrings(_)
SortStrings(ss) ==
    IF Len(ss) = 0 THEN <<>>
    ELSE InsertSorted(SortStrings(SubSeq(ss, 1, Len(ss) - 1)), ss[Len(ss)])

----------------------------------------------------------------------------
(* The heap of string arrays *)

\* *ptr
Deref(m, ptr) == m[ptr[1]][ptr[2]]

\* a slice words[lo:lo+len] of the array arr (lo is 0-based)
Slice(arr, lo, len) == [arr |-> arr, lo |-> lo, len |-> len]

\* &words[pos], pos 0-based
ElemPtr(s, pos) == <<s.arr, s.lo + pos + 1>>

\* words[pos], pos 0-based
Elem(m, s, pos) == Deref(m, ElemPtr(s, pos))

\* the strings of a slice, in order
SliceSeq(m, s) == [i \in 1..s.len |-> Elem(m, s, i - 1)]

\* a newly allocated array holding ws, and the slice over all of it
Alloc(m, ws) == Append(m, ws)
NewSlice(m, ws) == Slice(Len(m) + 1, 0, Len(ws))

----------------------------------------------------------------------------
(* TernarySearchTreeNode: the node heap `nodes` of one tree, root at index 1 *)

\* newTernarySearchTreeNode(value)
newTernarySearchTreeNode(value) ==
    [Value |-> value, Left |-> 0, Right |-> 0, Equal |-> 0, Data |-> Nil]

\* &wordData{WordPtr, Position, Refcount}, wrapped so that nil is <<>>
wordData(wordPtr, position, refcount) ==
    <<[WordPtr |-> wordPtr, Position |-> position, Refcount |-> refcount]>>

\* t.isWord()
isWord(nodes, node) == nodes[node].Data # Nil

\* t.Position()
Position(nodes, node) ==
    IF nodes[node].Data = Nil THEN -1 ELSE nodes[node].Data[1].Position

\* the descent loop of Insert from `node` with the byte word[pos] (pos 1-based)
\* in hand; yields <<nodes, terminal node>>
RECURSIVE InsertWalk(_, _, _, _)
InsertWalk(nodes, node, pos, word) ==
    LET c == word[pos]
        fresh == Len(nodes) + 1
    IN IF c < nodes[node].Value THEN
           IF nodes[node].Left = 0
           THEN InsertWalk(Append([nodes EXCEPT ![node].Left = fresh],
                                  newTernarySearchTreeNode(c)), fresh, pos, word)
           ELSE InsertWalk(nodes, nodes[node].Left, pos, word)
       ELSE IF c > nodes[node].Value THEN
           IF nodes[node].Right = 0
           THEN InsertWalk(Append([nodes EXCEPT ![node].Right = fresh],
                                  newTernarySearchTreeNode(c)), fresh, pos, word)
           ELSE InsertWalk(nodes, nodes[node].Right, pos, word)
       ELSE IF pos = Len(word) THEN <<nodes, node>>
       ELSE IF nodes[node].Equal = 0
           THEN InsertWalk(Append([nodes EXCEPT ![node].Equal = fresh],
                                  newTernarySearchTreeNode(word[pos + 1])),
                           fresh, pos + 1, word)
           ELSE InsertWalk(nodes, nodes[node].Equal, pos + 1, word)

\* the data update that ends Insert: a new wordData, or position and refcount
SetData(nodes, node, wordPtr, position) ==
    IF nodes[node].Data = Nil
    THEN [nodes EXCEPT ![node].Data = wordData(wordPtr, position, 1)]
    ELSE [nodes EXCEPT ![node].Data =
              wordData(@[1].WordPtr, position, @[1].Refcount + 1)]

\* (t *TernarySearchTreeNode) Insert(wordPtr, position) on the root
NodeInsert(nodes, m, wordPtr, position) ==
    IF wordPtr = Nil THEN nodes
    ELSE LET word == Deref(m, wordPtr) IN
         IF Len(word) = 0 THEN nodes
         ELSE LET n1 == IF nodes[1].Value = 0
                        THEN [nodes EXCEPT ![1].Value = word[1]] ELSE nodes
                  w == InsertWalk(n1, 1, 1, word)
              IN SetData(w[1], w[2], wordPtr, position)

\* the descent loop of Get; yields the node reached, 0 for nil
RECURSIVE GetWalk(_, _, _, _)
GetWalk(nodes, node, pos, word) ==
    LET c == word[pos] IN
    IF c < nodes[node].Value THEN
        IF nodes[node].Left = 0 THEN 0
        ELSE GetWalk(nodes, nodes[node].Left, pos, word)
    ELSE IF c > nodes[node].Value THEN
        IF nodes[node].Right = 0 THEN 0
        ELSE GetWalk(nodes, nodes[node].Right, pos, word)
    ELSE IF pos = Len(word) THEN node
    ELSE IF nodes[node].Equal = 0 THEN 0
    ELSE GetWalk(nodes, nodes[node].Equal, pos + 1, word)

\* (t *TernarySearchTreeNode) Get(word) on the root
NodeGet(nodes, word) ==
    IF Len(word) = 0 THEN 0 ELSE GetWalk(nodes, 1, 1, word)

\* a Has that takes every node reached for a word
NodeHasAnyNode(nodes, word) == NodeGet(nodes, word) # 0

\* (t *TernarySearchTreeNode) Has(word)
NodeHas(nodes, word) ==
    LET node == NodeGet(nodes, word) IN node # 0 /\ isWord(nodes, node)

\* a Delete that drops the word data whatever its refcount
NodeDeleteAtOnce(nodes, word) ==
    LET node == NodeGet(nodes, word) IN
    IF node # 0 /\ isWord(nodes, node)
    THEN <<[nodes EXCEPT ![node].Data = Nil], nodes[node].Data[1].Position>>
    ELSE <<nodes, -1>>

\* (t *TernarySearchTreeNode) Delete(word): <<nodes, deleted position or -1>>
NodeDelete(nodes, word) ==
    LET node == NodeGet(nodes, word) IN
    IF node # 0 /\ isWord(nodes, node)
    THEN LET d == nodes[node].Data[1] IN
         IF d.Refcount - 1 <= 0
         THEN <<[nodes EXCEPT ![node].Data = Nil], d.Position>>
         ELSE <<[nodes EXCEPT ![node].Data =
                    wordData(d.WordPtr, d.Position, d.Refcount - 1)], -1>>
    ELSE <<nodes, -1>>

\* a walk that visits the node before its left subtree
RECURSIVE WalkSelfFirst(_, _)
WalkSelfFirst(nodes, node) ==
    (IF isWord(nodes, node) THEN nodes[node].Data ELSE <<>>)
    \o (IF nodes[node].Left # 0 THEN WalkSelfFirst(nodes, nodes[node].Left) ELSE <<>>)
    \o (IF nodes[node].Equal # 0 THEN WalkSelfFirst(nodes, nodes[node].Equal) ELSE <<>>)
    \o (IF nodes[node].Right # 0 THEN WalkSelfFirst(nodes, nodes[node].Right) ELSE <<>>)

\* Walk(fn) with fn collecting the data of word nodes: left, self, equal, right
RECURSIVE Walk(_, _)
Walk(nodes, node) ==
    (IF nodes[node].Left # 0 THEN Walk(nodes, nodes[node].Left) ELSE <<>>)
    \o (IF isWord(nodes, node) THEN nodes[node].Data ELSE <<>>)
    \o (IF nodes[node].Equal # 0 THEN Walk(nodes, nodes[node].Equal) ELSE <<>>)
    \o (IF nodes[node].Right # 0 THEN Walk(nodes, nodes[node].Right) ELSE <<>>)

\* (t *TernarySearchTreeNode) PrefixSearch(prefix): the []*wordData
PrefixSearch(nodes, prefix) ==
    LET prefixNode == NodeGet(nodes, prefix) IN
    IF prefixNode = 0 THEN <<>>
    ELSE (IF isWord(nodes, prefixNode) THEN nodes[prefixNode].Data ELSE <<>>)
         \o (IF nodes[prefixNode].Equal # 0
             THEN Walk(nodes, nodes[prefixNode].Equal) ELSE <<>>)

----------------------------------------------------------------------------
(* TernarySearchTree *)

sortByWord == 0
sortByPosition == 1

\* DIRTY_THRESHOLD = 0.33, as the fraction DirtyNum / DirtyDen
DirtyNum == 33
DirtyDen == 100

\* NewTernarySearchTree()
NewTernarySearchTree ==
    [nodes |-> <<newTernarySearchTreeNode(0)>>, words |-> <<>>,
     longestWord |-> 0, length |-> 0, dirty |-> 0]

Max(a, b) == IF a > b THEN a ELSE b

\* (t *TernarySearchTree) Insert(word): the parameter escapes to the heap as a
\* one-element array; yields <<tree, mem>>
Insert(t, m, word) ==
    LET m1 == Alloc(m, <<word>>)
        ptr == ElemPtr(NewSlice(m, <<word>>), 0)
    IN <<[t EXCEPT !.nodes = NodeInsert(t.nodes, m1, ptr, Len(t.words)),
                   !.words = Append(t.words, ptr),
                   !.length = t.length + 1,
                   !.longestWord = Max(t.longestWord, Len(word))], m1>>

\* the positions (0-based) of the slice that the first loop of InsertAll adds
\* to wordPos: those whose word the tree does not hold when InsertAll starts
Added(t, m, words) ==
    {pos \in 0..(words.len - 1) : ~NodeHas(t.nodes, Elem(m, words, pos))}

\* the pos-th smallest element of a set of integers, pos from 1
RECURSIVE Nth(_, _)
Nth(S, k) ==
    LET lo == CHOOSE x \in S : \A y \in S : x <= y
    IN IF k = 1 THEN lo ELSE Nth(S \ {lo}, k - 1)

\* the orders in which `range wordPos` may visit n entries
MapOrders(n) == {o \in [1..n -> 1..n] : \A i, j \in 1..n : o[i] = o[j] => i = j}

\* the second loop of InsertAll: root.Insert(word, pos) for the entries of
\* wordPos in the order `order`; entry k holds &words[Nth(added, k)] and the
\* index base + k - 1 at which the first loop appended it to t.words
RECURSIVE InsertEntries(_, _, _, _, _, _, _)
InsertEntries(nodes, m, words, added, base, order, i) ==
    IF i > Len(order) THEN nodes
    ELSE LET k == order[i]
         IN InsertEntries(
                NodeInsert(nodes, m, ElemPtr(words, Nth(added, k)), base + k - 1),
                m, words, added, base, order, i + 1)

\* (t *TernarySearchTree) InsertAll(words), the map visited in `order`
InsertAll(t, m, words, order) ==
    LET added == Added(t, m, words)
        n == Cardinality(added)
        ptrs == [k \in 1..n |-> ElemPtr(words, Nth(added, k))]
        lens == {Len(Elem(m, words, pos)) : pos \in added}
    IN [t EXCEPT !.nodes = InsertEntries(t.nodes, m, words, added, Len(t.words), order, 1),
                 !.words = t.words \o ptrs,
                 !.longestWord = IF \E l \in lens : l > t.longestWord
                                 THEN CHOOSE l \in lens : \A l2 \in lens : l2 <= l
                                 ELSE t.longestWord,
                 !.length = t.length + n]

\* (t *TernarySearchTree) Has(word)
Has(t, word) == NodeHas(t.nodes, word)

\* (t *TernarySearchTree) HasPrefix(prefix)
HasPrefix(t, prefix) == NodeGet(t.nodes, prefix) # 0

\* (t *TernarySearchTree) Len()
TstLen(t) == t.length

\* (t *TernarySearchTree) Delete(word)
\* Delete that cuts the slot out of words, shifting the later slots down
DeleteShifts(t, word) ==
    LET d == NodeDelete(t.nodes, word) IN
    IF d[2] = -1 THEN [t EXCEPT !.nodes = d[1]]
    ELSE [t EXCEPT !.nodes = d[1],
                   !.words = SubSeq(t.words, 1, d[2])
                                 \o SubSeq(t.words, d[2] + 2, Len(t.words)),
                   !.length = t.length - 1,
                   !.dirty = t.dirty + 1]

\* Delete that tombstones the slot and leaves the counters alone
DeleteNoCount(t, word) ==
    LET d == NodeDelete(t.nodes, word) IN
    IF d[2] = -1 THEN [t EXCEPT !.nodes = d[1]]
    ELSE [t EXCEPT !.nodes = d[1],
                   !.words = [t.words EXCEPT ![d[2] + 1] = Nil]]

Delete(t, word) ==
    LET d == NodeDelete(t.nodes, word) IN
    IF d[2] = -1 THEN [t EXCEPT !.nodes = d[1]]
    ELSE [t EXCEPT !.nodes = d[1],
                   !.words = [t.words EXCEPT ![d[2] + 1] = Nil],
                   !.length = t.length - 1,
                   !.dirty = t.dirty + 1]

\* (t *TernarySearchTree) Words()
RECURSIVE WordsOf(_, _)
WordsOf(m, ptrs) ==
    IF Len(ptrs) = 0 THEN <<>>
    ELSE (IF ptrs[1] # Nil THEN <<Deref(m, ptrs[1])>> ELSE <<>>)
         \o WordsOf(m, Tail(ptrs))

Words(t, m) == WordsOf(m, t.words)

\* (t *TernarySearchTree) Reset()
Reset(t) ==
    [t EXCEPT !.nodes = <<newTernarySearchTreeNode(0)>>,
              !.length = 0, !.dirty = 0, !.longestWord = 0, !.words = <<>>]

\* sort.Slice(matches, Position less): insertion by ascending position
RECURSIVE InsertByPosition(_, _)
InsertByPosition(sorted, d) ==
    IF Len(sorted) = 0 THEN <<d>>
    ELSE IF d.Position < sorted[1].Position THEN <<d>> \o sorted
    ELSE <<sorted[1]>> \o InsertByPosition(Tail(sorted), d)

RECURSIVE SortByPosition(_)
SortByPosition(ds) ==
    IF Len(ds) = 0 THEN <<>>
    ELSE InsertByPosition(SortByPosition(SubSeq(ds, 1, Len(ds) - 1)), ds[Len(ds)])

\* (t *TernarySearchTree) Autocomplete(prefix, sortBy)
TstAutocomplete(t, m, prefix, sortBy) ==
    IF Len(prefix) > t.longestWord THEN <<>>
    ELSE LET found == PrefixSearch(t.nodes, prefix)
             matches == IF Len(found) > 0 /\ sortBy = sortByPosition
                        THEN SortByPosition(found) ELSE found
         IN [i \in 1..Len(matches) |-> Deref(m, matches[i].WordPtr)]

\* the deletion loop of Sync over the words indexed before the insertion
RECURSIVE DeleteUnseen(_, _, _)
DeleteUnseen(t, indexed, seen) ==
    IF Len(indexed) = 0 THEN t
    ELSE DeleteUnseen(IF indexed[1] \in seen THEN t ELSE Delete(t, indexed[1]),
                      Tail(indexed), seen)

\* the reset Sync makes first: dirty > uint(float64(length) * DIRTY_THRESHOLD)
\* the threshold test of Sync with >= in place of >
SyncResetAtFloor(t) ==
    IF t.dirty >= (t.length * DirtyNum) \div DirtyDen THEN Reset(t) ELSE t

SyncReset(t) ==
    IF t.dirty > (t.length * DirtyNum) \div DirtyDen THEN Reset(t) ELSE t

\* (t *TernarySearchTree) Sync(words), the map of InsertAll visited in `order`
Sync(t, m, words, order) ==
    IF words.len = 0 THEN Reset(t)
    ELSE LET t1 == SyncReset(t)
             indexed == Words(t1, m)
             t2 == InsertAll(t1, m, words, order)
             seen == {Elem(m, words, pos) : pos \in 0..(words.len - 1)}
         IN DeleteUnseen(t2, indexed, seen)

\* the number of wordPos entries Sync(words) will visit
SyncAdded(t, m, words) ==
    IF words.len = 0 THEN 0 ELSE Cardinality(Added(SyncReset(t), m, words))

\* StringSearch(terms, text, sortBy)
RECURSIVE SearchTerms(_, _, _)
SearchTerms(m, terms, text) ==
    IF Len(terms) = 0 THEN <<>>
    ELSE (IF terms[1] # Nil /\ Deref(m, terms[1]) # <<>>
             /\ Contains(Deref(m, terms[1]), text)
          THEN <<Deref(m, terms[1])>> ELSE <<>>)
         \o SearchTerms(m, Tail(terms), text)

StringSearch(m, terms, text, sortBy) ==
    LET matches == SearchTerms(m, terms, text)
    IN IF Len(matches) > 0 /\ sortBy = sortByWord THEN SortStrings(matches) ELSE matches

----------------------------------------------------------------------------
(* Garbage collection of mem: arrays no tree points into are dropped and the *)
(* rest renumbered in allocation order (addresses are not observable).       *)

\* the arrays a tree holds pointers into
TreeArrays(t) ==
    {t.words[i][1] : i \in {j \in 1..Len(t.words) : t.words[j] # Nil}}
    \cup {t.nodes[n].Data[1].WordPtr[1] : n \in {k \in 1..Len(t.nodes) : t.nodes[k].Data # Nil}}

MovePtr(f, ptr) == IF ptr = Nil THEN Nil ELSE <<f[ptr[1]], ptr[2]>>

MoveTree(t, f) ==
    [t EXCEPT !.words = [i \in 1..Len(t.words) |-> MovePtr(f, t.words[i])],
              !.nodes = [n \in 1..Len(t.nodes) |->
                  IF t.nodes[n].Data = Nil THEN t.nodes[n]
                  ELSE [t.nodes[n] EXCEPT !.Data =
                           wordData(MovePtr(f, @[1].WordPtr), @[1].Position, @[1].Refcount)]]]

\* the next state of the heap and of the five trees
Commit(m, tr, h, a, n, c) ==
    LET live == TreeArrays(tr) \cup TreeArrays(h) \cup TreeArrays(a)
                \cup TreeArrays(n) \cup TreeArrays(c)
        f == [id \in live |-> Cardinality({r \in live : r <= id})]
    IN /\ mem' = [k \in 1..Cardinality(live) |-> m[Nth(live, k)]]
       /\ trie' = MoveTree(tr, f)
       /\ cmdHistoryTst' = MoveTree(h, f)
       /\ aliasTst' = MoveTree(a, f)
       /\ namespacesTst' = MoveTree(n, f)
       /\ configSetTst' = MoveTree(c, f)

CommitTrie(m, tr) == Commit(m, tr, cmdHistoryTst, aliasTst, namespacesTst, configSetTst)

----------------------------------------------------------------------------
(* NaiveSpellChecker over a reference tree t with heap m *)

\* var symbols = []rune("abcdefghijklmnopqrstuvwxyz-/.")
symbols == [i \in 1..26 |-> 96 + i] \o <<45, 47, 46>>

minimumWordLength == 3

\* word[:i] and word[i:], i counted from 0 as in the source
Upto(word, i) == SubSeq(word, 1, i)
From(word, i) == SubSeq(word, i + 1, Len(word))

\* (t *TernarySearchTreeNode) Get(word) called on the node `node`
NodeGetFrom(nodes, node, word) ==
    IF Len(word) = 0 THEN 0 ELSE GetWalk(nodes, node, 1, word)

\* the strings of cands, in order, that s.tree.HasPrefix accepts
KeepPrefixes(t, cands) == SelectSeq(cands, LAMBDA c : HasPrefix(t, c))

\* (s *NaiveSpellChecker) delete(word, candidates): what it appends
delete(t, word) ==
    KeepPrefixes(t, [k \in 1..Len(word) |-> Upto(word, k - 1) \o From(word, k)])

\* (s *NaiveSpellChecker) transpose(word, candidates): what it appends
transpose(t, word) ==
    KeepPrefixes(t, [k \in 1..(Len(word) - 1) |->
                        Upto(word, k - 1) \o <<word[k + 1], word[k]>> \o From(word, k + 1)])

\* (s *NaiveSpellChecker) replace(word, candidates): what it appends.  Entry j
\* is index i = (j - 1) \div 29 of the word and symbol (j - 1) % 29 + 1.
replace(t, word) ==
    LET n == Len(symbols)
        tries == [j \in 1..(Len(word) * n) |->
                    LET i == (j - 1) \div n
                        symbol == symbols[((j - 1) % n) + 1]
                        node == NodeGet(t.nodes, Upto(word, i))
                    IN [cand |-> Upto(word, i) \o <<symbol>> \o From(word, i + 1),
                        ok |-> node # 0
                               /\ NodeGetFrom(t.nodes, node,
                                              <<symbol>> \o From(word, i + 1)) # 0]]
        kept == SelectSeq(tries, LAMBDA e : e.ok)
    IN [j \in 1..Len(kept) |-> kept[j].cand]

\* an insert that puts no symbol in front of the word
insertInside(t, word) ==
    LET n == Len(symbols)
    IN KeepPrefixes(t, [j \in 1..(Len(word) * n) |->
                           LET i == ((j - 1) \div n) + 1
                           IN Upto(word, i) \o <<symbols[((j - 1) % n) + 1]>> \o From(word, i)])

\* (s *NaiveSpellChecker) insert(word, candidates): what it appends
insert(t, word) ==
    LET n == Len(symbols)
    IN KeepPrefixes(t, [j \in 1..((Len(word) + 1) * n) |->
                           LET i == (j - 1) \div n
                           IN Upto(word, i) \o <<symbols[((j - 1) % n) + 1]>> \o From(word, i)])

\* the loop of unique(words) over a tree `results` with its own heap
RECURSIVE UniqueInto(_, _, _)
UniqueInto(results, m, words) ==
    IF Len(words) = 0 THEN Words(results, m)
    ELSE IF Has(results, words[1]) THEN UniqueInto(results, m, Tail(words))
    ELSE LET r == Insert(results, m, words[1])
         IN UniqueInto(r[1], r[2], Tail(words))

\* unique(words)
unique(words) == UniqueInto(NewTernarySearchTree, <<>>, words)

\* (s *NaiveSpellChecker) variations(word)
variations(t, word) ==
    unique(delete(t, word) \o transpose(t, word) \o replace(t, word) \o insert(t, word))

Candidate(word, sugg) == [Word |-> word, Suggestion |-> sugg, Score |-> 0]

\* the pairs of the two loops with no test of the suggestion's length
RECURSIVE EmissionsAnyLength(_, _, _, _)
EmissionsAnyLength(t, m, items, word) ==
    IF Len(items) = 0 THEN <<>>
    ELSE LET sugg == TstAutocomplete(t, m, items[1], sortByWord)
         IN [k \in 1..Len(sugg) |-> Candidate(items[1], sugg[k])]
            \o EmissionsAnyLength(t, m, Tail(items), word)

\* the pairs the two loops of Candidates reach past the length test, in order
RECURSIVE Emissions(_, _, _, _)
Emissions(t, m, items, word) ==
    IF Len(items) = 0 THEN <<>>
    ELSE LET sugg == SelectSeq(TstAutocomplete(t, m, items[1], sortByWord),
                               LAMBDA g : ~(Len(g) < Len(word)))
         IN [k \in 1..Len(sugg) |-> Candidate(items[1], sugg[k])]
            \o Emissions(t, m, Tail(items), word)

\* a loop that leaves the entry of a suggestion seen before as it is
RECURSIVE CollectFirstWins(_, _, _, _)
CollectFirstWins(seen, sm, results, ems) ==
    IF Len(ems) = 0 THEN results
    ELSE LET e == ems[1]
             prevSuggestion == NodeGet(seen, e.Suggestion)
         IN IF prevSuggestion = 0 \/ ~isWord(seen, prevSuggestion)
            THEN LET sm1 == Alloc(sm, <<e.Suggestion>>)
                     ptr == ElemPtr(NewSlice(sm, <<e.Suggestion>>), 0)
                 IN CollectFirstWins(NodeInsert(seen, sm1, ptr, Len(results)), sm1,
                                     Append(results, e), Tail(ems))
            ELSE CollectFirstWins(seen, sm, results, Tail(ems))

\* the body of the inner loop of Candidates: seen is the side tree (its nodes
\* and the heap holding the suggestions it points to)
RECURSIVE Collect(_, _, _, _)
Collect(seen, sm, results, ems) ==
    IF Len(ems) = 0 THEN results
    ELSE LET e == ems[1]
             prevSuggestion == NodeGet(seen, e.Suggestion)
         IN IF prevSuggestion = 0 \/ ~isWord(seen, prevSuggestion)
            THEN LET sm1 == Alloc(sm, <<e.Suggestion>>)
                     ptr == ElemPtr(NewSlice(sm, <<e.Suggestion>>), 0)
                 IN Collect(NodeInsert(seen, sm1, ptr, Len(results)), sm1,
                            Append(results, e), Tail(ems))
            ELSE Collect(seen, sm,
                         [results EXCEPT ![Position(seen, prevSuggestion) + 1] = e],
                         Tail(ems))

\* a Candidates without the test of the word's length
CandidatesAnyLength(t, m, word) ==
    Collect(<<newTernarySearchTreeNode(0)>>, <<>>, <<>>,
            Emissions(t, m, variations(t, word), word))

\* (s *NaiveSpellChecker) Candidates(word)
Candidates(t, m, word) ==
    IF Len(word) < minimumWordLength THEN <<>>
    ELSE Collect(<<newTernarySearchTreeNode(0)>>, <<>>, <<>>,
                 Emissions(t, m, variations(t, word), word))

----------------------------------------------------------------------------
(* Bounds and inputs *)

MaxOps == 3          \* operations applied to the standalone tree
MaxWords == 2        \* length of a word list handed to InsertAll and Sync

\* the sequences over S of length 0..n
SeqsUpTo(S, n) == UNION {[1..k -> S] : k \in 0..n}

TreeWords == {sA, sAB, sB, sA_N}
TreeLists == SeqsUpTo(TreeWords, MaxWords)

Op(op, name, words) == [op |-> op, name |-> name, words |-> words]

MaxCalls == 2        \* calls made on the autocompleter
MaxTime == 2         \* clock ticks
RefreshRate == 1     \* PromptAutocompleter.refreshRate, in ticks

HistoryWords == {sA, sAB, sA_N, s_A}
AliasWords == {sA, sAB, sB}
NamespaceWords == {sN, sNB}
ConfigWords == {sN, sB}

BucketWords(name) ==
    CASE name = "history" -> HistoryWords
      [] name = "aliases" -> AliasWords
      [] name = "namespaces" -> NamespaceWords
      [] name = "k9sconfig-set" -> ConfigWords

Buckets == {"history", "aliases", "namespaces", "k9sconfig-set"}

\* what the host's UpdateFn indexes (history most recent first)
UpdHistory == <<sA_N, sAB, sA>>
UpdAliases == <<sA, sAB>>
UpdNamespaces == <<sN, sNB>>

\* cluster and context names reported by the host; "n/a" is the unknown one
MetaNames == {"c1", "c2", "n/a"}

SuggestAutoComplete == 1
SuggestFullText == 2

\* the threads of the concurrent specifications and what each holds before its first call

MaxRuns == 1         \* calls each thread makes

Updaters == {"u1", "u2"}                     \* threads calling BufferActive(true)
Threads == Updaters \cup {"ci", "hw", "rd"}  \* ClusterInfoChanged, HistoryChanged, Suggest

None == "none"

\* the texts the reading thread asks Suggest about
ConcTexts == {<<>>, sA}

\* the history lists the host hands to HistoryChanged
ConcHistories == {<<sB>>}

\* the cluster and context pairs the host reports
ConcMeta == {<<"c1", "c1">>}

\* the Index calls of the host's UpdateFn, in order
UpdateFnJobs ==
    <<[name |-> "history", ws |-> UpdHistory],
      [name |-> "aliases", ws |-> UpdAliases],
      [name |-> "namespaces", ws |-> UpdNamespaces]>>

IdleLoc == [jobs |-> <<>>, indexed |-> <<>>, seen |-> {}, ran |-> FALSE,
            must |-> FALSE, over |-> FALSE, text |-> <<>>, got |-> <<>>,
            want |-> <<>>, stale |-> FALSE]

\* the labels at which an updater is inside UpdateFn
InUpdateFn == {"ix_lock", "ix_delete", "ix_unlock", "upd_refreshed"}

\* no thread has called yet
ConcIdle ==
    /\ pc = [t \in Threads |-> "idle"]
    /\ loc = [t \in Threads |-> IdleLoc]
    /\ runs = [t \in Threads |-> 0]
    /\ mxWriter = None
    /\ mxReaders = {}
    /\ refreshMx = None
    /\ forcedPending = FALSE
    /\ lastDoneAt = -1
    /\ forcedSince = FALSE
    /\ stable = [text \in ConcTexts |-> <<>>]

----------------------------------------------------------------------------
(* FishBuff: the input buffer and its suggestion ring *)

SuggestNone == 0

\* NewFishBuff(key, kind)
NewFishBuff ==
    /\ buff = <<>>
    /\ suggestion = <<>>
    /\ suggestions = <<>>
    /\ suggestionIndex = 0
    /\ suggestMode = SuggestNone
    /\ ret = <<>>

\* the nil slice
NilSlice == Slice(0, 0, 0)

\* NewHistory(limit)
NewHistory(limit) == [commands |-> NilSlice, limit |-> limit, crashed |-> FALSE]

\* the host objects of a specification that does not drive them
HistIdle == hist = NewHistory(0)
BootIdle == boot = <<>>
PromptIdle == prompt = <<>>
FactIdle == fact = <<>>
HostIdle == HistIdle /\ BootIdle /\ PromptIdle /\ FactIdle

----------------------------------------------------------------------------
(* SpecTree: the operations of a standalone tree, as the tests drive it *)

InitTree ==
    /\ mem = <<>>
    /\ trie = NewTernarySearchTree
    /\ lastOp = Op("New", "", <<>>)
    /\ steps = 0
    /\ cmdHistoryTst = NewTernarySearchTree
    /\ aliasTst = NewTernarySearchTree
    /\ namespacesTst = NewTernarySearchTree
    /\ configSetTst = NewTernarySearchTree
    /\ mode = SuggestAutoComplete
    /\ lastRefreshTime = 0 - (MaxTime + 2 * RefreshRate + 1)
    /\ cluster = ""
    /\ context = ""
    /\ now = 0
    /\ updates = 0
    /\ ConcIdle
    /\ candidates = <<>>
    /\ NewFishBuff
    /\ HostIdle

TrieInsert(w) ==
    /\ steps < MaxOps
    /\ LET r == Insert(trie, mem, w) IN CommitTrie(r[2], r[1])
    /\ lastOp' = Op("Insert", "", <<w>>)
    /\ steps' = steps + 1
    /\ UNCHANGED <<mode, refreshVars, concVars, spellVars, buffVars, hostVars>>

TrieInsertAll(ws) ==
    /\ steps < MaxOps
    /\ LET m1 == Alloc(mem, ws)
           words == NewSlice(mem, ws)
       IN \E order \in MapOrders(Cardinality(Added(trie, m1, words))) :
              CommitTrie(m1, InsertAll(trie, m1, words, order))
    /\ lastOp' = Op("InsertAll", "", ws)
    /\ steps' = steps + 1
    /\ UNCHANGED <<mode, refreshVars, concVars, spellVars, buffVars, hostVars>>

TrieDelete(w) ==
    /\ steps < MaxOps
    /\ CommitTrie(mem, Delete(trie, w))
    /\ lastOp' = Op("Delete", "", <<w>>)
    /\ steps' = steps + 1
    /\ UNCHANGED <<mode, refreshVars, concVars, spellVars, buffVars, hostVars>>

TrieSync(ws) ==
    /\ steps < MaxOps
    /\ LET m1 == Alloc(mem, ws)
           words == NewSlice(mem, ws)
       IN \E order \in MapOrders(SyncAdded(trie, m1, words)) :
              CommitTrie(m1, Sync(trie, m1, words, order))
    /\ lastOp' = Op("Sync", "", ws)
    /\ steps' = steps + 1
    /\ UNCHANGED <<mode, refreshVars, concVars, spellVars, buffVars, hostVars>>

TrieReset ==
    /\ steps < MaxOps
    /\ CommitTrie(mem, Reset(trie))
    /\ lastOp' = Op("Reset", "", <<>>)
    /\ steps' = steps + 1
    /\ UNCHANGED <<mode, refreshVars, concVars, spellVars, buffVars, hostVars>>

NextTree ==
    \/ \E w \in TreeWords : TrieInsert(w)
    \/ \E ws \in TreeLists : TrieInsertAll(ws)
    \/ \E w \in TreeWords : TrieDelete(w)
    \/ \E ws \in TreeLists : TrieSync(ws)
    \/ TrieReset

SpecTree == InitTree /\ [][NextTree]_vars

----------------------------------------------------------------------------
(* SpecLaw: a standalone tree driven from the empty tree, the calls made so
   far kept in lastOp.words, oldest first *)

MaxLawOps == 4       \* operations applied to the tree

\* the words of SpecLaw: the empty string, a word, an extension of it, another
LawWords == {<<>>, sA, sAB, sB}

\* the lists handed to InsertAll and Sync
LawLists == {<<<<>>>>, <<sA, <<>>>>, <<sB, sAB>>}

Call(op, ws) == [op |-> op, ws |-> ws]

Logged(op, ws) == Op("Law", "", Append(lastOp.words, Call(op, ws)))

InitLaw ==
    /\ mem = <<>>
    /\ trie = NewTernarySearchTree
    /\ lastOp = Op("Law", "", <<>>)
    /\ steps = 0
    /\ cmdHistoryTst = NewTernarySearchTree
    /\ aliasTst = NewTernarySearchTree
    /\ namespacesTst = NewTernarySearchTree
    /\ configSetTst = NewTernarySearchTree
    /\ mode = SuggestAutoComplete
    /\ lastRefreshTime = 0 - (MaxTime + 2 * RefreshRate + 1)
    /\ cluster = ""
    /\ context = ""
    /\ now = 0
    /\ updates = 0
    /\ ConcIdle
    /\ candidates = <<>>
    /\ NewFishBuff
    /\ HostIdle

LawInsert(w) ==
    /\ steps < MaxLawOps
    /\ LET r == Insert(trie, mem, w) IN CommitTrie(r[2], r[1])
    /\ lastOp' = Logged("Insert", <<w>>)
    /\ steps' = steps + 1
    /\ UNCHANGED <<mode, refreshVars, concVars, spellVars, buffVars, hostVars>>

LawDelete(w) ==
    /\ steps < MaxLawOps
    /\ CommitTrie(mem, Delete(trie, w))
    /\ lastOp' = Logged("Delete", <<w>>)
    /\ steps' = steps + 1
    /\ UNCHANGED <<mode, refreshVars, concVars, spellVars, buffVars, hostVars>>

LawInsertAll(ws) ==
    /\ steps < MaxLawOps
    /\ LET m1 == Alloc(mem, ws)
           words == NewSlice(mem, ws)
       IN \E order \in MapOrders(Cardinality(Added(trie, m1, words))) :
              CommitTrie(m1, InsertAll(trie, m1, words, order))
    /\ lastOp' = Logged("InsertAll", ws)
    /\ steps' = steps + 1
    /\ UNCHANGED <<mode, refreshVars, concVars, spellVars, buffVars, hostVars>>

LawSync(ws) ==
    /\ steps < MaxLawOps
    /\ LET m1 == Alloc(mem, ws)
           words == NewSlice(mem, ws)
       IN \E order \in MapOrders(SyncAdded(trie, m1, words)) :
              CommitTrie(m1, Sync(trie, m1, words, order))
    /\ lastOp' = Logged("Sync", ws)
    /\ steps' = steps + 1
    /\ UNCHANGED <<mode, refreshVars, concVars, spellVars, buffVars, hostVars>>

NextLaw ==
    \/ \E w \in LawWords : LawInsert(w)
    \/ \E w \in LawWords : LawDelete(w)
    \/ \E ws \in LawLists : LawInsertAll(ws)
    \/ \E ws \in LawLists : LawSync(ws)

SpecLaw == InitLaw /\ [][NextLaw]_vars

\* SpecSync: the same calls with lists long enough for the tree to hold four
\* live words next to a tombstone, on either side of the Sync threshold
SyncWords == {sA, sA_N}

SyncLists == {<<sA, sAB, sB, sN>>, <<sB, sA>>}

NextSync ==
    \/ \E w \in SyncWords : LawInsert(w)
    \/ \E w \in SyncWords : LawDelete(w)
    \/ \E ws \in SyncLists : LawInsertAll(ws)
    \/ \E ws \in SyncLists : LawSync(ws)

SpecSync == InitLaw /\ [][NextSync]_vars

----------------------------------------------------------------------------
(* SpecSpell: a NaiveSpellChecker over a standalone tree; the tree is built
   and changed by its own operations, Candidates is called in between;
   steps counts both *)

MaxSpellOps == 3     \* calls made on the reference tree and the spellchecker

ChD == 100
ChO == 111
ChP == 112
ChS == 115
ChU == 117

sPO == <<ChP, ChO>>
sPOD == <<ChP, ChO, ChD>>
sPODS == <<ChP, ChO, ChD, ChS>>
sPAD == <<ChP, ChA, ChD>>

\* the words the reference tree is built from
SpellWords == {sPO, sPOD, sPODS, sPAD}

\* the lists handed to InsertAll, as newTernarySearchTree of the tests does
SpellLists == {<<sPO, sPOD>>, <<sPOD, sPODS>>}

\* w with one pair of adjacent characters swapped, w with one character removed
Swaps(w) ==
    {Upto(w, k - 1) \o <<w[k + 1], w[k]>> \o From(w, k + 1) : k \in 1..(Len(w) - 1)}
Removals(w) == {Upto(w, k - 1) \o From(w, k) : k \in 1..Len(w)}

\* the typos handed to Candidates: one swap or one removal away from a word,
\* one replaced character (first, middle, last), and the words themselves
SpellInputs ==
    UNION {Swaps(w) \cup Removals(w) : w \in SpellWords}
    \cup {<<ChS, ChO, ChD>>, <<ChP, ChU, ChD>>, <<ChP, ChO, ChS>>, <<ChP, ChU, ChD, ChS>>}
    \cup SpellWords

InitSpell ==
    /\ mem = <<>>
    /\ trie = NewTernarySearchTree
    /\ lastOp = Op("NewNaiveSpellChecker", "", <<>>)
    /\ steps = 0
    /\ cmdHistoryTst = NewTernarySearchTree
    /\ aliasTst = NewTernarySearchTree
    /\ namespacesTst = NewTernarySearchTree
    /\ configSetTst = NewTernarySearchTree
    /\ mode = SuggestAutoComplete
    /\ lastRefreshTime = 0 - (MaxTime + 2 * RefreshRate + 1)
    /\ cluster = ""
    /\ context = ""
    /\ now = 0
    /\ updates = 0
    /\ ConcIdle
    /\ candidates = <<>>
    /\ NewFishBuff
    /\ HostIdle

SpellInsert(w) ==
    /\ steps < MaxSpellOps
    /\ LET r == Insert(trie, mem, w) IN CommitTrie(r[2], r[1])
    /\ lastOp' = Op("Insert", "", <<w>>)
    /\ steps' = steps + 1
    /\ UNCHANGED <<mode, refreshVars, concVars, spellVars, buffVars, hostVars>>

SpellInsertAll(ws) ==
    /\ steps < MaxSpellOps
    /\ LET m1 == Alloc(mem, ws)
           words == NewSlice(mem, ws)
       IN \E order \in MapOrders(Cardinality(Added(trie, m1, words))) :
              CommitTrie(m1, InsertAll(trie, m1, words, order))
    /\ lastOp' = Op("InsertAll", "", ws)
    /\ steps' = steps + 1
    /\ UNCHANGED <<mode, refreshVars, concVars, spellVars, buffVars, hostVars>>

SpellDelete(w) ==
    /\ steps < MaxSpellOps
    /\ CommitTrie(mem, Delete(trie, w))
    /\ lastOp' = Op("Delete", "", <<w>>)
    /\ steps' = steps + 1
    /\ UNCHANGED <<mode, refreshVars, concVars, spellVars, buffVars, hostVars>>

\* NewNaiveSpellChecker(tree, minimumWordLength).Candidates(word)
SpellCandidates(word) ==
    /\ steps < MaxSpellOps
    /\ candidates' = Candidates(trie, mem, word)
    /\ lastOp' = Op("Candidates", "", <<word>>)
    /\ steps' = steps + 1
    /\ UNCHANGED <<mem, treeVars, autoVars, refreshVars, concVars, buffVars, hostVars>>

NextSpell ==
    \/ \E w \in SpellWords : SpellInsert(w)
    \/ \E ws \in SpellLists : SpellInsertAll(ws)
    \/ \E w \in SpellWords : SpellDelete(w)
    \/ \E word \in SpellInputs : SpellCandidates(word)

SpecSpell == InitSpell /\ [][NextSpell]_vars

----------------------------------------------------------------------------
(* PromptAutocompleter: the reads *)

\* "k9sconfig-set"
k9sconfigSet == <<107, 57, 115, 99, 111, 110, 102, 105, 103, 45, 115, 101, 116>>

\* the keys of the map disableNamespaceFor
disableNamespaceFor ==
    {
     <<97, 108, 105, 97, 115>>,  \* alias
     <<97, 108, 105, 97, 115, 101, 115>>,  \* aliases
     <<99, 108, 117, 115, 116, 101, 114, 114, 111, 108, 101>>,  \* clusterrole
     <<99, 108, 117, 115, 116, 101, 114, 114, 111, 108, 101, 115>>,  \* clusterroles
     <<99, 108, 117, 115, 116, 101, 114, 114, 111, 108, 101, 98, 105, 110, 100, 105, 110, 103>>,  \* clusterrolebinding
     <<99, 108, 117, 115, 116, 101, 114, 114, 111, 108, 101, 98, 105, 110, 100, 105, 110, 103, 115>>,  \* clusterrolebindings
     <<99, 111, 110, 116, 101, 120, 116>>,  \* context
     <<99, 111, 110, 116, 101, 120, 116, 115>>,  \* contexts
     <<99, 114>>,  \* cr
     <<99, 114, 98>>,  \* crb
     <<99, 115, 114>>,  \* csr
     <<99, 116, 120>>,  \* ctx
     <<110, 97, 109, 101, 115, 112, 97, 99, 101>>,  \* namespace
     <<110, 97, 109, 101, 115, 112, 97, 99, 101, 115>>,  \* namespaces
     <<110, 115>>,  \* ns
     <<107, 57, 115, 99, 111, 110, 102, 105, 103, 45, 115, 101, 116>>  \* k9sconfig-set
    }

\* a test that takes every verb for a namespaced resource
isResourceNamepacedAlways(res) == TRUE

\* (p *PromptAutocompleter) isResourceNamepaced(res)
isResourceNamepaced(res) == res \notin disableNamespaceFor

\* (p *PromptAutocompleter) All()
All ==
    SortStrings(Words(aliasTst, mem))
    \o (IF mode = SuggestFullText THEN SortStrings(Words(namespacesTst, mem)) ELSE <<>>)
    \o Words(cmdHistoryTst, mem)

\* (p *PromptAutocompleter) Search(text)
Search(text) ==
    LET lower == ToLower(text)
    IN StringSearch(mem, cmdHistoryTst.words, lower, sortByPosition)
       \o StringSearch(mem, namespacesTst.words, lower, sortByWord)
       \o StringSearch(mem, aliasTst.words, lower, sortByWord)

\* the history block with the matches left in position order
HistoryEntriesUnrotated(text) ==
    TstAutocomplete(cmdHistoryTst, mem, text, sortByPosition)

\* the history block of Autocomplete: the matches by position, the last one
\* moved to the front
HistoryEntries(text) ==
    LET matches == TstAutocomplete(cmdHistoryTst, mem, text, sortByPosition)
    IN IF Len(matches) > 0
       THEN <<matches[Len(matches)]>> \o SubSeq(matches, 1, Len(matches) - 1)
       ELSE <<>>

\* the loop over the matches of the second term without the history test
SuggestionsUnfiltered(head, matches) ==
    [i \in 1..Len(matches) |-> head \o matches[i]]

\* the loop over the matches of the second term: text[:blankIndex+1] + suggest
\* for every match that is no history word
RECURSIVE Suggestions(_, _)
Suggestions(head, matches) ==
    IF Len(matches) = 0 THEN <<>>
    ELSE (IF ~Has(cmdHistoryTst, head \o matches[1]) THEN <<head \o matches[1]>> ELSE <<>>)
         \o Suggestions(head, Tail(matches))

\* case 2 appending the words of the target tree whatever the second term
TargetEntriesWords(targetTst, text, term) == Words(targetTst, mem)

\* what case 2 of Autocomplete appends from the target tree
TargetEntries(targetTst, text, term) ==
    IF term = <<>> THEN Words(targetTst, mem)
    ELSE Suggestions(SubSeq(text, 1, LastIndexSP(text) + 1),
                     TstAutocomplete(targetTst, mem, term, sortByWord))

\* case 1 with the aliases appended whatever the history block holds
AliasEntriesAlways(entries, text) ==
    entries \o TstAutocomplete(aliasTst, mem, text, sortByWord)

\* case 1 of Autocomplete: the aliases, only when the history block is empty
AliasEntries(entries, text) ==
    IF Len(entries) = 0
    THEN entries \o TstAutocomplete(aliasTst, mem, text, sortByWord) ELSE entries

\* an Autocomplete that goes on to the namespaces after a committed second term
AutocompleteNoStop(input) ==
    IF Len(input) > 0 /\ input[1] = SP THEN <<>>
    ELSE LET text == ToLower(input)
             fields == Fields(text)
             terms == IF Len(fields) = 1 /\ text[Len(text)] = SP
                      THEN Append(fields, <<>>) ELSE fields
             entries == HistoryEntries(text)
         IN IF Len(terms) = 1 THEN AliasEntries(entries, text)
            ELSE IF Len(terms) = 2 THEN
                IF isResourceNamepaced(terms[1])
                THEN entries \o TargetEntries(namespacesTst, text, terms[2])
                ELSE IF terms[1] = k9sconfigSet
                     THEN entries \o TargetEntries(configSetTst, text, terms[2])
                ELSE entries
            ELSE entries

\* (p *PromptAutocompleter) Autocomplete(text)
Autocomplete(input) ==
    IF Len(input) > 0 /\ input[1] = SP THEN <<>>
    ELSE LET text == ToLower(input)
             fields == Fields(text)
             terms == IF Len(fields) = 1 /\ text[Len(text)] = SP
                      THEN Append(fields, <<>>) ELSE fields
             entries == HistoryEntries(text)
         IN IF Len(terms) = 1 THEN AliasEntries(entries, text)
            ELSE IF Len(terms) = 2 THEN
                IF Len(terms[2]) > 0 /\ text[Len(text)] = SP THEN entries
                ELSE IF isResourceNamepaced(terms[1])
                     THEN entries \o TargetEntries(namespacesTst, text, terms[2])
                ELSE IF terms[1] = k9sconfigSet
                     THEN entries \o TargetEntries(configSetTst, text, terms[2])
                ELSE entries
            ELSE entries

\* (p *PromptAutocompleter) Suggest(text)
Suggest(text) ==
    IF text = <<>> THEN All
    ELSE IF mode = SuggestAutoComplete THEN Autocomplete(text)
    ELSE IF mode = SuggestFullText THEN Search(text)
    ELSE <<>>

----------------------------------------------------------------------------
(* PromptAutocompleter: the writes.  st is the heap and the four trees. *)

St == [m |-> mem, h |-> cmdHistoryTst, a |-> aliasTst, n |-> namespacesTst,
       c |-> configSetTst]

CommitSt(st) == Commit(st.m, trie, st.h, st.a, st.n, st.c)

\* the in-place reversal loop of Index over the caller's slice
ReverseInPlace(m, words) ==
    [m EXCEPT ![words.arr] =
        [i \in 1..Len(@) |->
            IF i > words.lo /\ i <= words.lo + words.len
            THEN @[2 * words.lo + words.len + 1 - i] ELSE @[i]]]

\* the heap as Index(name, words) hands it to Sync
IndexHeap(st, name, words) ==
    IF name = "history" THEN ReverseInPlace(st.m, words) ELSE st.m

\* the tree Index(name, ...) selects
IndexTree(st, name) ==
    CASE name = "history" -> st.h
      [] name = "aliases" -> st.a
      [] name = "namespaces" -> st.n
      [] name = "k9sconfig-set" -> st.c

\* the visiting orders open to the InsertAll of Index(name, words)
IndexOrders(st, name, words) ==
    MapOrders(SyncAdded(IndexTree(st, name), IndexHeap(st, name, words), words))

\* (p *PromptAutocompleter) Index(name, words)
Index(st, name, words, order) ==
    LET m1 == IndexHeap(st, name, words)
    IN CASE name = "history" ->
              [st EXCEPT !.m = m1, !.h = Sync(st.h, m1, words, order)]
         [] name = "aliases" -> [st EXCEPT !.a = Sync(st.a, m1, words, order)]
         [] name = "namespaces" -> [st EXCEPT !.n = Sync(st.n, m1, words, order)]
         [] name = "k9sconfig-set" -> [st EXCEPT !.c = Sync(st.c, m1, words, order)]
         [] OTHER -> st

\* Index(name, ws) on a slice the caller has just built
\* (ws is a list literal, as in the tests' updateFn)
IndexFresh(st, name, ws, order) ==
    Index([st EXCEPT !.m = Alloc(st.m, ws)], name, NewSlice(st.m, ws), order)

FreshOrders(st, name, ws) ==
    IndexOrders([st EXCEPT !.m = Alloc(st.m, ws)], name, NewSlice(st.m, ws))

\* a Reset that clears the configuration keys as well
ResetStAll(st) ==
    [st EXCEPT !.h = Reset(st.h), !.a = Reset(st.a), !.n = Reset(st.n), !.c = Reset(st.c)]

\* (p *PromptAutocompleter) Reset()
ResetSt(st) ==
    [st EXCEPT !.h = Reset(st.h), !.a = Reset(st.a), !.n = Reset(st.n)]

\* (p *PromptAutocompleter) needRefresh()
needRefresh == now - lastRefreshTime > RefreshRate

\* the value forceRefresh() stores: time.Now().Add(-2 * p.refreshRate)
forceRefresh == now - 2 * RefreshRate

\* the states UpdateFn(p) can leave: the host indexes its history, aliases
\* and namespaces
UpdateFnResults(st) ==
    {IndexFresh(IndexFresh(IndexFresh(st, "history", UpdHistory, o[1]),
                           "aliases", UpdAliases, o[2]),
                "namespaces", UpdNamespaces, o[3]) :
        o \in FreshOrders(st, "history", UpdHistory)
              \X FreshOrders(st, "aliases", UpdAliases)
              \X FreshOrders(st, "namespaces", UpdNamespaces)}

\* (p *PromptAutocompleter) Update(), run without interruption
Update ==
    IF needRefresh
    THEN /\ \E st \in UpdateFnResults(St) : CommitSt(st)
         /\ lastRefreshTime' = now
         /\ updates' = updates + 1
    ELSE UNCHANGED <<mem, treeVars, cmdHistoryTst, aliasTst, namespacesTst,
                     configSetTst, lastRefreshTime, updates>>

----------------------------------------------------------------------------
(* Spec: the calls the host makes on a PromptAutocompleter, one at a time *)

\* the distance of the initial lastRefreshTime from the clock: the constructor
\* stores time.Now().Add(-2 * refreshRate * time.Second), a product that wraps
\* in 64 bits, so the stamp lies well before or well after the clock
Far == MaxTime + 2 * RefreshRate + 1

\* NewPromptAutocompleter(updateFn, refreshRate)
NewPromptAutocompleter ==
    /\ cmdHistoryTst = NewTernarySearchTree
    /\ aliasTst = NewTernarySearchTree
    /\ namespacesTst = NewTernarySearchTree
    /\ configSetTst = NewTernarySearchTree
    /\ mode = SuggestAutoComplete
    /\ lastRefreshTime \in {now - Far, now + Far}
    /\ cluster = ""
    /\ context = ""

Init ==
    /\ mem = <<>>
    /\ trie = NewTernarySearchTree
    /\ lastOp = Op("New", "", <<>>)
    /\ steps = 0
    /\ now = 0
    /\ updates = 0
    /\ NewPromptAutocompleter
    /\ ConcIdle
    /\ candidates = <<>>
    /\ NewFishBuff
    /\ HostIdle

\* Index(name, ws); HistoryChanged(ws) is Index("history", ws)
IndexCall(name, ws) ==
    /\ steps < MaxCalls
    /\ \E order \in FreshOrders(St, name, ws) :
           CommitSt(IndexFresh(St, name, ws, order))
    /\ lastOp' = Op("Index", name, ws)
    /\ steps' = steps + 1
    /\ UNCHANGED <<mode, refreshVars, concVars, spellVars, buffVars, hostVars>>

\* Reset()
ResetCall ==
    /\ steps < MaxCalls
    /\ CommitSt(ResetSt(St))
    /\ lastOp' = Op("Reset", "", <<>>)
    /\ steps' = steps + 1
    /\ UNCHANGED <<mode, refreshVars, concVars, spellVars, buffVars, hostVars>>

\* SuggestModeChanged(m)
SuggestModeChanged(m) ==
    /\ steps < MaxCalls
    /\ mode' = m
    /\ Update
    /\ lastOp' = Op("SuggestModeChanged", "", <<>>)
    /\ steps' = steps + 1
    /\ UNCHANGED <<cluster, context, now, concVars, spellVars, buffVars, hostVars>>

\* BufferActive(state, kind)
BufferActive(state) ==
    /\ steps < MaxCalls
    /\ IF state THEN Update
       ELSE UNCHANGED <<mem, treeVars, cmdHistoryTst, aliasTst, namespacesTst,
                        configSetTst, lastRefreshTime, updates>>
    /\ lastOp' = Op("BufferActive", "", <<>>)
    /\ steps' = steps + 1
    /\ UNCHANGED <<mode, cluster, context, now, concVars, spellVars, buffVars, hostVars>>

\* ClusterInfoChanged(prev, curr)
ClusterInfoChanged(currCluster, currContext) ==
    /\ steps < MaxCalls
    /\ IF /\ currCluster # "n/a" /\ cluster = currCluster
          /\ context # "n/a" /\ context = currContext
       THEN UNCHANGED <<mem, treeVars, cmdHistoryTst, aliasTst, namespacesTst,
                        configSetTst, lastRefreshTime, cluster, context>>
       ELSE /\ cluster' = currCluster
            /\ context' = currContext
            /\ CommitSt(ResetSt(St))
            /\ lastRefreshTime' = forceRefresh
    /\ lastOp' = Op("ClusterInfoChanged", currCluster, <<currContext>>)
    /\ steps' = steps + 1
    /\ UNCHANGED <<mode, now, updates, concVars, spellVars, buffVars, hostVars>>

\* the clock advances
Tick ==
    /\ now < MaxTime
    /\ now' = now + 1
    /\ UNCHANGED <<mem, treeVars, lastOp, steps, autoVars, lastRefreshTime,
                   cluster, context, updates, concVars, spellVars, buffVars, hostVars>>

Next ==
    \/ \E name \in Buckets : \E ws \in SeqsUpTo(BucketWords(name), MaxWords) :
           IndexCall(name, ws)
    \/ ResetCall
    \/ \E m \in {SuggestAutoComplete, SuggestFullText} : SuggestModeChanged(m)
    \/ \E state \in BOOLEAN : BufferActive(state)
    \/ \E cl \in MetaNames, cx \in MetaNames : ClusterInfoChanged(cl, cx)
    \/ Tick

Spec == Init /\ [][Next]_vars

(* SpecHistory: a History whose listener is the PromptAutocompleter; every
   change of the commands reaches Index("history", h.commands) *)

MaxHistOps == 4      \* calls made on the History

\* the limits handed to NewHistory and to SetLimit
HistLimits == {0, 2, 3}
HistNewLimits == {1, 3}

\* the commands pushed and the lists handed to Set
HistWords == {<<>>, sA, sB, <<ChUpperA>>}
HistLists == {<<sA, sB, sAB>>, <<sB, sA>>}

\* (h *History) List()
List == SliceSeq(mem, hist.commands)

\* the visiting orders open to the InsertAll under HistoryChanged(commands)
HistoryOrders(m, commands) ==
    IF commands.len = 0 THEN {<<>>}
    ELSE IndexOrders([St EXCEPT !.m = m], "history", commands)

\* h.fireHistoryChanged(h.commands) with the autocompleter listening:
\* HistoryChanged(commands) is Index("history", commands) on the slice itself
fireHistoryChanged(m, commands, order) ==
    LET st == IF commands.len = 0
              THEN [St EXCEPT !.m = m, !.h = Reset(cmdHistoryTst)]
              ELSE Index([St EXCEPT !.m = m], "history", commands, order)
    IN /\ mem' = st.m
       /\ cmdHistoryTst' = st.h

HistFrame ==
    UNCHANGED <<trie, aliasTst, namespacesTst, configSetTst, mode, refreshVars,
                concVars, spellVars, buffVars, boot, prompt, fact>>

\* a call that returns before it changes anything
HistReturn == UNCHANGED <<mem, cmdHistoryTst, hist>>

\* a call that panics on a slice bound
HistPanic ==
    /\ hist' = [hist EXCEPT !.crashed = TRUE]
    /\ UNCHANGED <<mem, cmdHistoryTst>>

\* the commands are now the slice `commands` of the heap m, listeners told
HistStore(m, commands) ==
    /\ hist' = [hist EXCEPT !.commands = commands]
    /\ \E order \in HistoryOrders(m, commands) : fireHistoryChanged(m, commands, order)

InitHistory ==
    /\ mem = <<>>
    /\ trie = NewTernarySearchTree
    /\ lastOp = Op("NewHistory", "", <<>>)
    /\ steps = 0
    /\ now = 0
    /\ updates = 0
    /\ NewPromptAutocompleter
    /\ ConcIdle
    /\ candidates = <<>>
    /\ NewFishBuff
    /\ \E limit \in HistLimits : hist = NewHistory(limit)
    /\ BootIdle
    /\ PromptIdle
    /\ FactIdle

\* (h *History) Push(c)
Push(c) ==
    /\ steps < MaxHistOps /\ ~hist.crashed
    /\ LET lc == ToLower(c)
           cmds == hist.commands
           old == SliceSeq(mem, cmds)
       IN IF c = <<>> THEN HistReturn
          ELSE IF cmds.len > 0 /\ old[1] = lc THEN HistReturn
          ELSE IF cmds.len < hist.limit
          THEN HistStore(Alloc(mem, <<lc>> \o old), NewSlice(mem, <<lc>> \o old))
          ELSE IF cmds.len - 1 < 0 THEN HistPanic
          ELSE LET ws == <<lc>> \o SubSeq(old, 1, cmds.len - 1)
               IN HistStore(Alloc(mem, ws), NewSlice(mem, ws))
    /\ lastOp' = Op("Push", "", <<c>>)
    /\ steps' = steps + 1
    /\ HistFrame

\* (h *History) Pop()
Pop ==
    /\ steps < MaxHistOps /\ ~hist.crashed
    /\ LET cmds == hist.commands
       IN IF cmds.len = 0 THEN HistReturn
          ELSE HistStore(mem, Slice(cmds.arr, cmds.lo + 1, cmds.len - 1))
    /\ lastOp' = Op("Pop", "", <<>>)
    /\ steps' = steps + 1
    /\ HistFrame

\* (h *History) Clear()
Clear ==
    /\ steps < MaxHistOps /\ ~hist.crashed
    /\ HistStore(mem, NilSlice)
    /\ lastOp' = Op("Clear", "", <<>>)
    /\ steps' = steps + 1
    /\ HistFrame

\* (h *History) Set(s), s a slice of the caller
Set(ws) ==
    /\ steps < MaxHistOps /\ ~hist.crashed
    /\ LET s == NewSlice(mem, ws)
       IN IF s.len > hist.limit
          THEN IF hist.limit < 0 THEN HistPanic
               ELSE HistStore(Alloc(mem, ws), Slice(s.arr, s.lo, hist.limit))
          ELSE HistStore(Alloc(mem, ws), s)
    /\ lastOp' = Op("Set", "", ws)
    /\ steps' = steps + 1
    /\ HistFrame

\* (h *History) SetLimit(l)
SetLimit(l) ==
    /\ steps < MaxHistOps /\ ~hist.crashed
    /\ hist' = [hist EXCEPT !.limit = l]
    /\ UNCHANGED <<mem, cmdHistoryTst>>
    /\ lastOp' = Op("SetLimit", "", <<>>)
    /\ steps' = steps + 1
    /\ HistFrame

NextHistory ==
    \/ \E c \in HistWords : Push(c)
    \/ Pop
    \/ Clear
    \/ \E ws \in HistLists : Set(ws)
    \/ \E l \in HistNewLimits : SetLimit(l)

SpecHistory == InitHistory /\ [][NextHistory]_vars

(* SpecBoot: NewPromptAutocompleter(updateFn, refreshRate) and the first
   Update(), in the 64-bit arithmetic of time.Duration.  A Duration is kept as
   its eight bytes, least significant first. *)

MaxRateSeconds == 120    \* the refresh rates: 1s .. 120s ("2m" is the default)

Bytes64 == 0..7

\* the two's complement bytes of a natural number below 2^31
RECURSIVE ByteOf(_, _)
ByteOf(n, i) == IF i = 0 THEN n % 256 ELSE ByteOf(n \div 256, i - 1)

Dur(n) == [i \in Bytes64 |-> ByteOf(n, i)]

\* the sum of the byte products that land on byte k
RECURSIVE Column(_, _, _, _)
Column(a, b, k, i) ==
    IF i > k THEN 0 ELSE a[i] * b[k - i] + Column(a, b, k, i + 1)

\* the carry into byte k of a * b
RECURSIVE MulCarry(_, _, _)
MulCarry(a, b, k) ==
    IF k = 0 THEN 0 ELSE (Column(a, b, k - 1, 0) + MulCarry(a, b, k - 1)) \div 256

\* a * b on int64: the low 64 bits of the product
Mul64(a, b) == [k \in Bytes64 |-> (Column(a, b, k, 0) + MulCarry(a, b, k)) % 256]

\* the carry into byte k of ~a + 1
RECURSIVE NegCarry(_, _)
NegCarry(a, k) ==
    IF k = 0 THEN 1 ELSE ((255 - a[k - 1]) + NegCarry(a, k - 1)) \div 256

\* -a on int64
Neg64(a) == [k \in Bytes64 |-> ((255 - a[k]) + NegCarry(a, k)) % 256]

IsNeg64(a) == a[7] >= 128

\* a > b as unsigned numbers, compared from byte k down
RECURSIVE AboveFrom(_, _, _)
AboveFrom(a, b, k) ==
    IF a[k] # b[k] THEN a[k] > b[k]
    ELSE IF k = 0 THEN FALSE ELSE AboveFrom(a, b, k - 1)

\* a > b on int64
Gt64(a, b) ==
    IF IsNeg64(a) # IsNeg64(b) THEN IsNeg64(b) ELSE AboveFrom(a, b, 7)

\* time.Second, in nanoseconds
Second == Dur(1000000000)

\* the Duration time.ParseDuration yields for a rate of n seconds
ParseSeconds(n) == Mul64(Dur(n), Second)

\* -2 * refreshRate * time.Second, the Duration the constructor adds to Now()
InitialOffset(refreshRate) == Mul64(Mul64(Neg64(Dur(2)), refreshRate), Second)

\* needRefresh() on the first Update, the clock not having moved:
\* time.Since(lastRefreshTime) is -(lastRefreshTime - now)
FirstNeedRefresh == Gt64(Neg64(boot.offset), boot.refreshRate)

InitBoot ==
    /\ mem = <<>>
    /\ trie = NewTernarySearchTree
    /\ lastOp = Op("NewPromptAutocompleter", "", <<>>)
    /\ steps = 0
    /\ now = 0
    /\ updates = 0
    /\ NewPromptAutocompleter
    /\ ConcIdle
    /\ candidates = <<>>
    /\ NewFishBuff
    /\ HistIdle
    /\ PromptIdle
    /\ FactIdle
    /\ \E n \in 1..MaxRateSeconds :
           boot = [seconds |-> n, refreshRate |-> ParseSeconds(n),
                   offset |-> InitialOffset(ParseSeconds(n)), updated |-> <<>>]

\* the first Update(): UpdateFn runs when needRefresh() holds
FirstUpdate ==
    /\ boot.updated = <<>>
    /\ boot' = [boot EXCEPT !.updated = <<FirstNeedRefresh>>]
    /\ lastOp' = Op("Update", "", <<>>)
    /\ UNCHANGED <<mem, treeVars, autoVars, refreshVars, steps, concVars, spellVars,
                   buffVars, hist, prompt, fact>>

NextBoot == FirstUpdate

SpecBoot == InitBoot /\ [][NextBoot]_vars

----------------------------------------------------------------------------
(* SpecBuff: a FishBuff whose listener is the PromptAutocompleter and whose
   SuggestionFunc asks it for suggestions, driven as the prompt drives it *)

MaxBuff == 2         \* characters the buffer holds at most

\* the characters typed
BuffChars == {ChA, ChN, SP}

\* the configured SuggestionFunc: the autocompleter's Suggest
SuggestionFn(text, m) == Suggest(text)

\* the part of the state the buffer calls leave alone
BuffFrame ==
    UNCHANGED <<mem, treeVars, autoVars, refreshVars, steps, concVars, spellVars, hostVars>>

\* (f *FishBuff) Notify, fireSuggestionChanged and SetText, the buffer
\* holding text
Notify(text) ==
    LET ss == SuggestionFn(text, suggestMode)
    IN /\ suggestions' = ss
       /\ suggestionIndex' = 0
       /\ suggestion' = IF Len(ss) > 0 /\ Len(text) # 0 THEN ss[1] ELSE <<>>
       /\ buff' = text

\* (f *FishBuff) Add(r)
FishAdd(r) ==
    /\ Len(buff) < MaxBuff
    /\ Notify(Append(buff, r))
    /\ lastOp' = Op("Add", "", <<>>)
    /\ UNCHANGED <<suggestMode, ret>>
    /\ BuffFrame

\* (f *FishBuff) Delete()
FishDelete ==
    /\ Notify(IF Len(buff) = 0 THEN buff ELSE SubSeq(buff, 1, Len(buff) - 1))
    /\ lastOp' = Op("Delete", "", <<>>)
    /\ UNCHANGED <<suggestMode, ret>>
    /\ BuffFrame

\* a call of the embedded CmdBuff that leaves the buffer holding text
CmdBuffCall(op, text) ==
    /\ buff' = text
    /\ lastOp' = Op(op, "", <<>>)
    /\ UNCHANGED <<suggestion, suggestions, suggestionIndex, suggestMode, ret>>
    /\ BuffFrame

\* Insert(r, idx), the cursor inside the text
CmdInsert(r, idx) ==
    /\ Len(buff) < MaxBuff
    /\ CmdBuffCall("Insert", Upto(buff, idx) \o <<r>> \o From(buff, idx))

\* DeleteAt(idx)
CmdDeleteAt(idx) == CmdBuffCall("DeleteAt", Upto(buff, idx) \o From(buff, idx + 1))

\* DeleteRange(lo, hi), both ends included
CmdDeleteRange(lo, hi) == CmdBuffCall("DeleteRange", Upto(buff, lo) \o From(buff, hi + 1))

\* ClearText(fire)
CmdClearText ==
    /\ buff' = <<>>
    /\ suggestion' = <<>>
    /\ lastOp' = Op("ClearText", "", <<>>)
    /\ UNCHANGED <<suggestions, suggestionIndex, suggestMode, ret>>
    /\ BuffFrame

\* the index PrevSuggestion moves to
PrevIndex(i, k) == IF i - 1 < 0 THEN k - 1 ELSE i - 1

\* an index that stays on the last suggestion
NextIndexClamped(i, k) == IF i + 1 >= k THEN k - 1 ELSE i + 1

\* the index NextSuggestion moves to
NextIndex(i, k) == IF i + 1 >= k THEN 0 ELSE i + 1

\* a ring call that moves the index to i
RingMove(op, i) ==
    /\ IF Len(suggestions) = 0
       THEN /\ ret' = <<<<>>, FALSE>>
            /\ UNCHANGED suggestionIndex
       ELSE /\ suggestionIndex' = i
            /\ ret' = <<suggestions[i + 1], TRUE>>
    /\ lastOp' = Op(op, "", <<>>)
    /\ UNCHANGED <<buff, suggestion, suggestions, suggestMode>>
    /\ BuffFrame

\* (f *FishBuff) PrevSuggestion()
PrevSuggestion == RingMove("PrevSuggestion", PrevIndex(suggestionIndex, Len(suggestions)))

\* (f *FishBuff) NextSuggestion()
NextSuggestion == RingMove("NextSuggestion", NextIndex(suggestionIndex, Len(suggestions)))

\* (f *FishBuff) CurrentSuggestion()
CurrentSuggestion == RingMove("CurrentSuggestion", suggestionIndex)

\* a ClearSuggestions that empties the list and leaves the index where it is
ClearSuggestionsKeepIndex ==
    /\ suggestions' = <<>>
    /\ UNCHANGED suggestionIndex
    /\ lastOp' = Op("ClearSuggestions", "", <<>>)
    /\ UNCHANGED <<buff, suggestion, suggestMode, ret>>
    /\ BuffFrame

\* (f *FishBuff) ClearSuggestions()
ClearSuggestions ==
    /\ suggestions' = <<>>
    /\ suggestionIndex' = 0
    /\ lastOp' = Op("ClearSuggestions", "", <<>>)
    /\ UNCHANGED <<buff, suggestion, suggestMode, ret>>
    /\ BuffFrame

\* (f *FishBuff) SetSuggestMode(m), the autocompleter listening
SetSuggestMode(m) ==
    /\ steps < MaxCalls
    /\ suggestMode # m
    /\ mode' = m
    /\ Update
    /\ suggestMode' = m
    /\ lastOp' = Op("SetSuggestMode", "", <<>>)
    /\ steps' = steps + 1
    /\ UNCHANGED <<cluster, context, now, concVars, spellVars, hostVars,
                   buff, suggestion, suggestions, suggestionIndex, ret>>

\* SetActive(true): the listeners get BufferActive(true, kind), the prompt
\* asks for Notify
SetActive ==
    /\ steps < MaxCalls
    /\ Update
    /\ lastOp' = Op("SetActive", "", <<>>)
    /\ steps' = steps + 1
    /\ UNCHANGED <<mode, cluster, context, now, concVars, spellVars, buffVars, hostVars>>

NextBuff ==
    \/ \E r \in BuffChars : FishAdd(r)
    \/ FishDelete
    \/ \E r \in BuffChars : \E idx \in 0..(Len(buff) - 1) : CmdInsert(r, idx)
    \/ \E idx \in 0..(Len(buff) - 1) : CmdDeleteAt(idx)
    \/ \E hi \in 0..(Len(buff) - 1) : \E lo \in 0..hi : CmdDeleteRange(lo, hi)
    \/ CmdClearText
    \/ PrevSuggestion
    \/ NextSuggestion
    \/ CurrentSuggestion
    \/ ClearSuggestions
    \/ \E m \in {SuggestAutoComplete, SuggestFullText} : SetSuggestMode(m)
    \/ SetActive

SpecBuff == Init /\ [][NextBuff]_vars

----------------------------------------------------------------------------
(* SpecPrompt: the Prompt widget with a FishBuff as its model, the
   PromptAutocompleter listening to the buffer and to its suggest mode *)

MaxKeys == 4         \* key events, activations and deactivations

defaultSpacer == 4
searchSpacer == 12
defaultSuggestMode == SuggestAutoComplete

\* the runes typed
PromptChars == {ChA, SP}

\* NewPrompt(app, noIcons, styles) and SetModel(buff); the buffer is inactive
NewPrompt ==
    prompt = [suggestMode |-> SuggestAutoComplete, spacer |-> defaultSpacer,
              cursorPosition |-> 0, hasScrolled |-> FALSE, active |-> FALSE,
              pending |-> FALSE]

\* the FishBuff as a value
Buf == [buff |-> buff, suggestion |-> suggestion, suggestions |-> suggestions,
        suggestionIndex |-> suggestionIndex, ret |-> ret]

\* SetText(text, sug)
BufSetText(b, text, sug) == [b EXCEPT !.buff = text, !.suggestion = sug]

\* ClearText(true)
BufClearText(b) == [b EXCEPT !.buff = <<>>, !.suggestion = <<>>]

\* Add(r): CmdBuff.Add, then Notify
BufAdd(b, r) ==
    LET text == Append(b.buff, r)
        ss == SuggestionFn(text, suggestMode)
    IN [b EXCEPT !.buff = text, !.suggestions = ss, !.suggestionIndex = 0,
                 !.suggestion = IF Len(ss) > 0 THEN ss[1] ELSE <<>>]

\* PrevSuggestion, NextSuggestion and CurrentSuggestion, moving to index i
BufRing(b, i) ==
    IF Len(b.suggestions) = 0 THEN [b EXCEPT !.ret = <<<<>>, FALSE>>]
    ELSE [b EXCEPT !.suggestionIndex = i, !.ret = <<b.suggestions[i + 1], TRUE>>]

BufPrev(b) == BufRing(b, PrevIndex(b.suggestionIndex, Len(b.suggestions)))
BufNext(b) == BufRing(b, NextIndex(b.suggestionIndex, Len(b.suggestions)))
BufCurrent(b) == BufRing(b, b.suggestionIndex)

\* (p *Prompt) formatSuggest(text, suggest, false)
formatSuggest(text, suggest) ==
    IF text = suggest \/ (text # <<>> /\ suggest = <<>>) THEN text
    ELSE IF text = <<>> THEN suggest
    ELSE IF Contains(suggest, text) THEN suggest
    ELSE text \o suggest

\* if s, ok := m.CurrentSuggestion(); ok { SetText(formatSuggest(text, s, false), "");
\* ClearSuggestions() }
BufAccept(b) ==
    LET c == BufCurrent(b)
    IN IF c.ret[2]
       THEN [c EXCEPT !.buff = formatSuggest(b.buff, c.ret[1]), !.suggestion = <<>>,
                      !.suggestions = <<>>, !.suggestionIndex = 0]
       ELSE c

\* the cursor of Alt-Backspace once the blanks before it are skipped
RECURSIVE SkipBlanks(_, _)
SkipBlanks(text, c) ==
    IF c > 0 /\ text[c] = SP THEN SkipBlanks(text, c - 1) ELSE c

\* the autocompleter is not asked to refresh
NoRefresh ==
    UNCHANGED <<mem, treeVars, cmdHistoryTst, aliasTst, namespacesTst,
                configSetTst, lastRefreshTime, updates>>

\* (p *Prompt) setSuggestMode(m), as far as the buffer and its mode
\* listener go; no is SuggestNone where the handler does not call it
setSuggestMode(m) ==
    IF m # SuggestNone /\ prompt.suggestMode # m /\ suggestMode # m
    THEN /\ mode' = m
         /\ Update
         /\ suggestMode' = m
    ELSE /\ UNCHANGED <<mode, suggestMode>>
         /\ NoRefresh

\* the spacer setSuggestMode(m) leaves
SpacerFor(m) ==
    IF m = SuggestNone \/ prompt.suggestMode = m THEN prompt.spacer
    ELSE IF m = SuggestAutoComplete THEN defaultSpacer ELSE searchSpacer

\* what one case of the switch in (p *Prompt) keyboard(evt) does: the buffer
\* is left as b, setSuggestMode(m) is called when m is a mode, the cursor and
\* the flags are stored
Case(key, b, m, cursor, scrolled, active) ==
    [key |-> key, b |-> b, m |-> m, cursor |-> cursor, hasScrolled |-> scrolled,
     active |-> active]

Cursor == prompt.cursorPosition
InText == Cursor > 0 /\ Cursor <= Len(buff)

\* tcell.KeyBackspace2, KeyBackspace, KeyDelete
KeyBackspace ==
    IF InText
    THEN Case("Backspace",
                  [Buf EXCEPT !.buff = Upto(buff, Cursor - 1) \o From(buff, Cursor)],
                  SuggestNone, Cursor - 1, FALSE, TRUE)
    ELSE Case("Backspace", Buf, SuggestNone, Cursor, FALSE, TRUE)

\* the same keys with tcell.ModAlt
KeyAltBackspace ==
    IF InText
    THEN LET lastBlank == LastIndexSP(Upto(buff, SkipBlanks(buff, Cursor))) + 1
         IN Case("AltBackspace",
                     [Buf EXCEPT !.buff = Upto(buff, lastBlank) \o From(buff, Cursor)],
                     SuggestNone, lastBlank, FALSE, TRUE)
    ELSE Case("AltBackspace", Buf, SuggestNone, Cursor, FALSE, TRUE)

\* tcell.KeyRune
KeyRune(r) ==
    IF Cursor < Len(buff)
    THEN Case("Rune",
              [Buf EXCEPT !.buff = Upto(buff, Cursor) \o <<r>> \o From(buff, Cursor)],
              SuggestNone, Cursor + 1, FALSE, TRUE)
    ELSE Case("Rune", BufAdd(Buf, r), SuggestNone, Cursor + 1, FALSE, TRUE)

\* tcell.KeyEscape
KeyEscape == Case("Escape", BufClearText(Buf), defaultSuggestMode, 0, FALSE, FALSE)

\* tcell.KeyEnter, KeyCtrlE
KeyEnter ==
    Case("Enter", BufSetText(Buf, buff, <<>>), defaultSuggestMode, 0, FALSE, FALSE)

\* tcell.KeyCtrlW, KeyCtrlU
KeyCtrlW == Case("CtrlW", BufClearText(Buf), SuggestNone, 0, FALSE, TRUE)

\* tcell.KeyUp
KeyUp ==
    Case("Up", BufPrev(Buf), SuggestNone, Cursor,
             IF ~prompt.hasScrolled /\ Len(buff) = 0 THEN TRUE ELSE prompt.hasScrolled,
             TRUE)

\* tcell.KeyDown
KeyDown ==
    Case("Down",
             IF ~prompt.hasScrolled /\ Len(buff) = 0 THEN BufCurrent(Buf) ELSE BufNext(Buf),
             SuggestNone, Cursor, TRUE, TRUE)

\* tcell.KeyTab
KeyTab ==
    LET b == BufAccept(Buf)
    IN Case("Tab", IF b.ret[2] THEN b ELSE BufNext(Buf), defaultSuggestMode,
                IF b.ret[2] THEN Len(b.buff) ELSE Cursor, FALSE, TRUE)

\* tcell.KeyLeft
KeyLeft ==
    IF prompt.suggestMode # defaultSuggestMode
    THEN LET b == BufAccept(Buf)
         IN Case("Left", b, defaultSuggestMode,
                     IF b.ret[2] THEN 0 ELSE Cursor, FALSE, TRUE)
    ELSE Case("Left", Buf, SuggestNone,
                  IF buff # <<>> /\ Cursor > 0 THEN Cursor - 1 ELSE Cursor, FALSE, TRUE)

\* tcell.KeyRight
KeyRight ==
    IF prompt.suggestMode # defaultSuggestMode
    THEN LET b == BufAccept(Buf)
         IN Case("Right", b, defaultSuggestMode,
                     IF b.ret[2] THEN Len(b.buff) ELSE Cursor, FALSE, TRUE)
    ELSE Case("Right", Buf, SuggestNone,
                  IF Cursor < Len(buff) THEN Cursor + 1 ELSE Cursor, FALSE, TRUE)

\* tcell.KeyHome
KeyHome == Case("Home", Buf, SuggestNone, 0, FALSE, TRUE)

\* tcell.KeyEnd
KeyEnd ==
    LET b == BufAccept(Buf)
    IN Case("End", b, SuggestNone, Len(b.buff), FALSE, TRUE)

\* tcell.KeyCtrlR
KeyCtrlR ==
    IF prompt.suggestMode = SuggestFullText
    THEN Case("CtrlR", BufPrev(Buf), defaultSuggestMode, Cursor, FALSE, TRUE)
    ELSE Case("CtrlR", BufSetText(BufClearText(Buf), <<>>, <<>>), SuggestFullText,
                  0, FALSE, TRUE)

\* the key events the prompt is given, each with what its case does; a rune
\* is typed while the text is shorter than MaxBuff
KeyEvents ==
    {KeyBackspace, KeyAltBackspace, KeyEscape, KeyEnter, KeyCtrlW, KeyUp, KeyDown,
     KeyTab, KeyLeft, KeyRight, KeyHome, KeyEnd, KeyCtrlR}
    \cup (IF Len(buff) < MaxBuff THEN {KeyRune(r) : r \in PromptChars} ELSE {})

\* (p *Prompt) keyboard(evt)
keyboard ==
    /\ steps < MaxKeys
    /\ prompt.active
    /\ ~prompt.pending
    /\ \E e \in KeyEvents :
          /\ buff' = e.b.buff
          /\ suggestion' = e.b.suggestion
          /\ suggestions' = e.b.suggestions
          /\ suggestionIndex' = e.b.suggestionIndex
          /\ ret' = e.b.ret
          /\ setSuggestMode(e.m)
          /\ prompt' = [suggestMode |-> IF e.m = SuggestNone THEN prompt.suggestMode
                                        ELSE e.m,
                        spacer |-> SpacerFor(e.m), cursorPosition |-> e.cursor,
                        hasScrolled |-> e.hasScrolled, active |-> e.active,
                        pending |-> FALSE]
          /\ lastOp' = Op("keyboard", e.key, <<>>)
    /\ steps' = steps + 1
    /\ UNCHANGED <<cluster, context, now, concVars, spellVars, hist, boot, fact>>

\* (p *Prompt) Deactivate(): ClearText(true) and SetActive(false)
Deactivate ==
    /\ steps < MaxKeys
    /\ ~prompt.pending
    /\ buff' = <<>>
    /\ suggestion' = <<>>
    /\ prompt' = [prompt EXCEPT !.active = FALSE]
    /\ NoRefresh
    /\ lastOp' = Op("Deactivate", "", <<>>)
    /\ steps' = steps + 1
    /\ UNCHANGED <<mode, suggestMode, suggestions, suggestionIndex, ret, cluster,
                   context, now, concVars, spellVars, hist, boot, fact>>

\* SetActive(true) on the buffer.  The listeners get BufferActive(true, kind)
\* in the order of their priority, the autocompleter before the prompt: this
\* is the autocompleter's BufferActive, which calls Update().
BufferSetActive ==
    /\ steps < MaxKeys
    /\ ~prompt.active
    /\ Update
    /\ prompt' = [prompt EXCEPT !.active = TRUE, !.pending = TRUE]
    /\ lastOp' = Op("SetActive", "", <<>>)
    /\ steps' = steps + 1
    /\ UNCHANGED <<mode, cluster, context, now, concVars, spellVars, buffVars, hist,
                   boot, fact>>

\* the prompt's BufferActive(true, kind), which ends SetActive(true):
\* (p *Prompt) activate() resets the widget and calls Notify on the model
activate ==
    /\ prompt.pending
    /\ Notify(buff)
    /\ prompt' = [suggestMode |-> defaultSuggestMode, spacer |-> defaultSpacer,
                  cursorPosition |-> Len(buff), hasScrolled |-> FALSE,
                  active |-> TRUE, pending |-> FALSE]
    /\ lastOp' = Op("activate", "", <<>>)
    /\ UNCHANGED <<suggestMode, ret, mem, treeVars, autoVars, refreshVars, steps,
                   concVars, spellVars, hist, boot, fact>>

InitPrompt ==
    /\ mem = <<>>
    /\ trie = NewTernarySearchTree
    /\ lastOp = Op("NewPrompt", "", <<>>)
    /\ steps = 0
    /\ now = 0
    /\ updates = 0
    /\ NewPromptAutocompleter
    /\ ConcIdle
    /\ candidates = <<>>
    /\ NewFishBuff
    /\ HistIdle
    /\ BootIdle
    /\ FactIdle
    /\ NewPrompt

NextPrompt ==
    \/ keyboard
    \/ Deactivate
    \/ BufferSetActive
    \/ activate

SpecPrompt == InitPrompt /\ [][NextPrompt]_vars

----------------------------------------------------------------------------
(* SpecFactory: the informer Factory, called by the host from one goroutine,
   and the goroutine of its factoryMonitor.  A step is what runs between two
   lock operations. *)

MaxAccess == 2       \* ForResource calls the host makes
MaxFactTime == 3     \* the clock runs from 0 to MaxFactTime
IdleTimeout == 2     \* fm.idleTimeout, in units of the clock

FactNS == {"n1", "n2"}
FactGVR == {"po", "svc"}
FactInfs == FactNS \X FactGVR

\* the zero time.Time
ZeroTime == -1

\* NewFactory(clt): no factory, no stop channel, no monitor
NewFactory ==
    [factories |-> {}, stopChan |-> [ns \in FactNS |-> 0], chans |-> <<>>,
     monitor |-> FALSE, monStop |-> "nil", wg |-> 0, mx |-> "none",
     lastActive |-> ZeroTime, informerStats |-> [inf \in FactInfs |-> ZeroTime],
     namespaceStats |-> {}, now |-> 0,
     host |-> [pc |-> "idle", ns |-> "", gvr |-> "", calls |-> 0],
     mon |-> [pc |-> "none", todo |-> <<>>]]

InitFactory ==
    /\ mem = <<>>
    /\ trie = NewTernarySearchTree
    /\ lastOp = Op("NewFactory", "", <<>>)
    /\ steps = 0
    /\ now = 0
    /\ updates = 0
    /\ NewPromptAutocompleter
    /\ ConcIdle
    /\ candidates = <<>>
    /\ NewFishBuff
    /\ HistIdle
    /\ BootIdle
    /\ PromptIdle
    /\ fact = NewFactory

\* what a step of the Factory leaves alone
FactFrame ==
    UNCHANGED <<mem, treeVars, autoVars, refreshVars, steps, concVars, spellVars,
                buffVars, hist, boot, prompt>>

FactStep(op, f) ==
    /\ fact' = f
    /\ lastOp' = Op(op, "", <<>>)
    /\ FactFrame

\* f with a stop channel made for ns when it has none
WithStopChan(f, ns) ==
    IF f.stopChan[ns] # 0 THEN f
    ELSE [f EXCEPT !.chans = Append(@, FALSE), !.stopChan[ns] = Len(f.chans) + 1]

\* close(ch)
CloseChan(f, ch) == [f EXCEPT !.chans[ch] = TRUE]

\* the host calls ForResource(ns, gvr)
ForResourceBegin(ns, gvr) ==
    /\ fact.host.pc = "idle"
    /\ fact.host.calls < MaxAccess
    /\ FactStep("ForResource",
                [fact EXCEPT !.host = [pc |-> "ensure", ns |-> ns, gvr |-> gvr,
                                       calls |-> @.calls + 1]])

\* (f *Factory) ensureFactory(ns): the factory is loaded, or made and stored
\* with its stop channel under f.mx
ensureFactory ==
    /\ fact.host.pc = "ensure"
    /\ LET ns == fact.host.ns
       IN IF ns \in fact.factories
          THEN FactStep("ensureFactory", [fact EXCEPT !.host.pc = "start"])
          ELSE /\ fact.mx = "none"
               /\ FactStep("ensureFactory",
                           [WithStopChan(fact, ns) EXCEPT
                               !.factories = @ \cup {ns}, !.host.pc = "start"])

\* (f *Factory) Start(ns), under f.mx: the stop channel is made when there is
\* none, the monitor is made and its goroutine started when there is none
Start ==
    /\ fact.host.pc = "start"
    /\ fact.mx = "none"
    /\ LET f1 == WithStopChan(fact, fact.host.ns)
           f2 == IF f1.monitor THEN f1
                 ELSE [f1 EXCEPT !.monitor = TRUE, !.monStop = "open",
                                 !.lastActive = ZeroTime,
                                 !.informerStats = [inf \in FactInfs |-> ZeroTime],
                                 !.namespaceStats = {},
                                 !.mon = [pc |-> "spawned", todo |-> <<>>]]
       IN FactStep("Start", [f2 EXCEPT !.host.pc = "track"])

\* (fs *factoryStats) Track(inf, gvr, ns), called through f.monitor.Track;
\* ForResource returns
Track ==
    /\ fact.host.pc = "track"
    /\ FactStep("Track",
                [fact EXCEPT !.lastActive = fact.now,
                             !.informerStats[<<fact.host.ns, fact.host.gvr>>] = fact.now,
                             !.namespaceStats = @ \cup {fact.host.ns},
                             !.host.pc = "idle"])

\* (f *Factory) Terminate(): f.mx.Lock(); with a monitor, (fm *factoryMonitor)
\* Stop() as far as fm.wg.Wait(): the stats are reset and fm.stopChan closed
TerminateBegin ==
    /\ fact.host.pc = "idle"
    /\ fact.mx = "none"
    /\ IF fact.monitor /\ fact.monStop # "nil"
       THEN FactStep("Terminate",
                     [fact EXCEPT !.mx = "host", !.lastActive = ZeroTime,
                                  !.informerStats = [inf \in FactInfs |-> ZeroTime],
                                  !.namespaceStats = {}, !.monStop = "closed",
                                  !.host.pc = "wait"])
       ELSE FactStep("Terminate", [fact EXCEPT !.mx = "host", !.host.pc = "sweep"])

\* Stop(): fm.wg.Wait() returns when the counter is zero, then
\* fm.stopChan = nil; Terminate stores f.monitor = nil
TerminateWait ==
    /\ fact.host.pc = "wait"
    /\ fact.wg = 0
    /\ FactStep("Terminate",
                [fact EXCEPT !.monStop = "nil", !.monitor = FALSE,
                             !.host.pc = "sweep"])

\* f with every stored stop channel closed
RECURSIVE CloseAll(_, _)
CloseAll(f, nss) ==
    IF nss = {} THEN f
    ELSE LET ns == CHOOSE n \in nss : TRUE
         IN CloseAll(IF f.stopChan[ns] = 0 THEN f ELSE CloseChan(f, f.stopChan[ns]),
                     nss \ {ns})

\* Terminate: the stop channels are closed and deleted, the factories
\* deleted; the deferred f.mx.Unlock()
TerminateSweep ==
    /\ fact.host.pc = "sweep"
    /\ FactStep("Terminate",
                [CloseAll(fact, FactNS) EXCEPT
                    !.stopChan = [ns \in FactNS |-> 0], !.factories = {},
                    !.mx = "none", !.host.pc = "done"])

\* (fm *factoryMonitor) monitorLoop(): the ticker is made, fm.wg.Add(1)
MonitorAdd ==
    /\ fact.mon.pc = "spawned"
    /\ FactStep("monitorLoop", [fact EXCEPT !.wg = @ + 1, !.mon.pc = "select"])

\* monitorLoop: case <-fm.stopChan, a receive that a nil channel never
\* grants; the deferred fm.wg.Done()
MonitorExit ==
    /\ fact.mon.pc = "select"
    /\ fact.monStop = "closed"
    /\ FactStep("monitorLoop", [fact EXCEPT !.wg = @ - 1, !.mon.pc = "gone"])

\* the orders in which Range can visit a set of keys
RECURSIVE Orders(_)
Orders(set) ==
    IF set = {} THEN {<<>>}
    ELSE UNION {{<<x>> \o o : o \in Orders(set \ {x})} : x \in set}

\* monitorLoop: case <-ticker.C; (fm *factoryMonitor) monitor() begins with
\* fm.factory.namespaces()
MonitorTick ==
    /\ fact.mon.pc = "select"
    /\ \E todo \in Orders(fact.factories) :
           FactStep("monitor", [fact EXCEPT !.mon = [pc |-> "scan", todo |-> todo]])

\* (fs *factoryStats) IdleSince(ns, idleTimeout)
IdleSince(f, ns) ==
    IF f.lastActive = ZeroTime THEN TRUE
    ELSE \A inf \in FactInfs :
            (inf[1] = ns /\ f.informerStats[inf] # ZeroTime)
                => ~(f.now - f.informerStats[inf] < IdleTimeout)

\* monitor: the next namespace is asked IdleSince; the loop over the
\* namespaces ends with the log of the stats
MonitorScan ==
    /\ fact.mon.pc = "scan"
    /\ IF fact.mon.todo = <<>>
       THEN FactStep("monitor", [fact EXCEPT !.mon.pc = "select"])
       ELSE IF IdleSince(fact, Head(fact.mon.todo))
            THEN FactStep("monitor", [fact EXCEPT !.mon.pc = "stop"])
            ELSE FactStep("monitor", [fact EXCEPT !.mon.todo = Tail(@)])

\* (f *Factory) stopFactory(ns), under f.mx
stopFactory ==
    /\ fact.mon.pc = "stop"
    /\ fact.mx = "none"
    /\ LET ns == Head(fact.mon.todo)
       IN IF ns \in fact.factories /\ fact.stopChan[ns] # 0
          THEN FactStep("stopFactory",
                        [CloseChan(fact, fact.stopChan[ns]) EXCEPT
                            !.stopChan[ns] = 0, !.factories = @ \ {ns},
                            !.mon.pc = "stopped"])
          ELSE FactStep("stopFactory",
                        [fact EXCEPT !.mon = [pc |-> "scan", todo |-> Tail(@.todo)]])

\* (fs *factoryStats) FactoryStopped(ns)
FactoryStopped ==
    /\ fact.mon.pc = "stopped"
    /\ LET ns == Head(fact.mon.todo)
       IN FactStep("FactoryStopped",
                   [fact EXCEPT
                       !.informerStats = [inf \in FactInfs |->
                                             IF inf[1] = ns THEN ZeroTime ELSE @[inf]],
                       !.namespaceStats = @ \ {ns},
                       !.mon = [pc |-> "scan", todo |-> Tail(@.todo)]])

\* the clock advances
FactTick ==
    /\ fact.now < MaxFactTime
    /\ FactStep("Tick", [fact EXCEPT !.now = @ + 1])

\* the steps of the host
HostNext ==
    \/ \E ns \in FactNS, gvr \in FactGVR : ForResourceBegin(ns, gvr)
    \/ ensureFactory
    \/ Start
    \/ Track
    \/ TerminateBegin
    \/ TerminateWait
    \/ TerminateSweep

\* the steps of the monitor goroutine
MonitorNext ==
    \/ MonitorAdd
    \/ MonitorExit
    \/ MonitorTick
    \/ MonitorScan
    \/ stopFactory
    \/ FactoryStopped

NextFactory ==
    \/ HostNext
    \/ MonitorNext
    \/ FactTick

SpecFactory == InitFactory /\ [][NextFactory]_vars

\* SpecFactoryFair: SpecFactory under the Go scheduler: the host and the
\* monitor goroutine each take their next step when they can, and a select
\* whose stop channel is closed comes to take that case
SpecFactoryFair ==
    /\ SpecFactory
    /\ WF_vars(HostNext)
    /\ WF_vars(MonitorNext)
    /\ WF_vars(MonitorExit)

----------------------------------------------------------------------------
(* SpecRefresh, SpecRead: the autocompleter called from several goroutines.  Each thread
   makes its calls step by step; a step is what runs between two lock
   operations. *)

\* a write side that is granted only while no Update() is running
CanLockOutsideRefresh == mxWriter = None /\ mxReaders = {} /\ refreshMx = None

\* sync.RWMutex: Lock() returns when no thread holds either side
CanLock == mxWriter = None /\ mxReaders = {}

\* a read side that is granted whoever holds the write side
CanRLockAlways == TRUE

\* sync.RWMutex: RLock() returns when no thread holds the write side
CanRLock == mxWriter = None

\* a refresh lock that is granted whoever holds it
CanLockRefreshAlways == TRUE

\* p.refreshMx.Lock() returns when no thread holds it
CanLockRefresh == refreshMx = None

\* st with the tree Index(name, ...) selects replaced
WithTree(st, name, t) ==
    CASE name = "history" -> [st EXCEPT !.h = t]
      [] name = "aliases" -> [st EXCEPT !.a = t]
      [] name = "namespaces" -> [st EXCEPT !.n = t]
      [] name = "k9sconfig-set" -> [st EXCEPT !.c = t]

\* what Suggest returns for each text on the buckets as they stand
Settled == [text \in ConcTexts |-> Suggest(text)]

\* the label a thread reaches when its Index calls are done
AfterIndex(t) == IF t \in Updaters THEN "upd_refreshed" ELSE "idle"

\* Index: p.mx.Lock(), the reversal of a history slice, then Sync up to the
\* end of InsertAll
IxSync(t) ==
    /\ pc[t] = "ix_lock"
    /\ CanLock
    /\ mxWriter' = t
    /\ LET job == Head(loc[t].jobs)
           st0 == [St EXCEPT !.m = Alloc(mem, job.ws)]
           words == NewSlice(mem, job.ws)
           m1 == IndexHeap(st0, job.name, words)
           st1 == [st0 EXCEPT !.m = m1]
           t0 == IndexTree(st1, job.name)
       IN IF words.len = 0
          THEN /\ CommitSt(WithTree(st1, job.name, Reset(t0)))
               /\ loc' = [loc EXCEPT ![t].indexed = <<>>, ![t].seen = {}]
          ELSE LET t1 == SyncReset(t0)
               IN /\ \E order \in MapOrders(Cardinality(Added(t1, m1, words))) :
                         CommitSt(WithTree(st1, job.name,
                                           InsertAll(t1, m1, words, order)))
                  /\ loc' = [loc EXCEPT ![t].indexed = Words(t1, m1),
                                        ![t].seen = {job.ws[i] : i \in 1..Len(job.ws)}]
    /\ pc' = [pc EXCEPT ![t] = "ix_delete"]
    /\ UNCHANGED <<lastOp, steps, spellVars, buffVars, hostVars, mode, refreshVars, runs, mxReaders, refreshMx,
                   forcedPending, lastDoneAt, forcedSince, stable>>

\* Index: the deletions that end Sync
IxDelete(t) ==
    /\ pc[t] = "ix_delete"
    /\ LET job == Head(loc[t].jobs)
           t0 == IndexTree(St, job.name)
       IN CommitSt(WithTree(St, job.name,
                            DeleteUnseen(t0, loc[t].indexed, loc[t].seen)))
    /\ loc' = [loc EXCEPT ![t].indexed = <<>>, ![t].seen = {}]
    /\ pc' = [pc EXCEPT ![t] = "ix_unlock"]
    /\ UNCHANGED <<lastOp, steps, spellVars, buffVars, hostVars, mode, refreshVars, runs, mxWriter, mxReaders,
                   refreshMx, forcedPending, lastDoneAt, forcedSince, stable>>

\* Index: the deferred p.mx.Unlock(); the call returns
IxUnlock(t) ==
    /\ pc[t] = "ix_unlock"
    /\ mxWriter' = None
    /\ stable' = Settled
    /\ loc' = [loc EXCEPT ![t].jobs = Tail(@)]
    /\ pc' = [pc EXCEPT ![t] = IF Len(loc[t].jobs) > 1 THEN "ix_lock"
                                ELSE AfterIndex(t)]
    /\ UNCHANGED <<mem, treeVars, lastOp, steps, spellVars, buffVars, hostVars, autoVars, refreshVars, runs,
                   mxReaders, refreshMx, forcedPending, lastDoneAt, forcedSince>>

\* BufferActive(true) is called: Update() is entered
UpdBegin(t) ==
    /\ pc[t] = "idle"
    /\ runs[t] < MaxRuns
    /\ runs' = [runs EXCEPT ![t] = @ + 1]
    /\ loc' = [loc EXCEPT ![t].must = forcedPending,
                          ![t].over = (refreshMx # None)]
    /\ pc' = [pc EXCEPT ![t] = "upd_lock"]
    /\ UNCHANGED <<mem, treeVars, lastOp, steps, spellVars, buffVars, hostVars, autoVars, refreshVars, mxWriter,
                   mxReaders, refreshMx, forcedPending, lastDoneAt, forcedSince,
                   stable>>

\* Update: p.refreshMx.Lock()
UpdLock(t) ==
    /\ pc[t] = "upd_lock"
    /\ CanLockRefresh
    /\ refreshMx' = t
    /\ pc' = [pc EXCEPT ![t] = "upd_need"]
    /\ UNCHANGED <<mem, treeVars, lastOp, steps, spellVars, buffVars, hostVars, autoVars, refreshVars, loc, runs,
                   mxWriter, mxReaders, forcedPending, lastDoneAt, forcedSince,
                   stable>>

\* Update: if p.needRefresh(), read under p.mx.RLock(); UpdateFn is entered
UpdNeed(t) ==
    /\ pc[t] = "upd_need"
    /\ CanRLock
    /\ IF needRefresh
       THEN /\ loc' = [loc EXCEPT ![t].ran = TRUE, ![t].jobs = UpdateFnJobs]
            /\ updates' = updates + 1
            /\ forcedPending' = FALSE
            /\ pc' = [pc EXCEPT ![t] = "ix_lock"]
       ELSE /\ pc' = [pc EXCEPT ![t] = "upd_unlock"]
            /\ UNCHANGED <<loc, updates, forcedPending>>
    /\ UNCHANGED <<mem, treeVars, lastOp, steps, spellVars, buffVars, hostVars, autoVars, lastRefreshTime, cluster,
                   context, now, runs, mxWriter, mxReaders, refreshMx,
                   lastDoneAt, forcedSince, stable>>

\* Update: p.refreshed(), a store to lastRefreshTime with p.mx not held.  It
\* races with the store of forceRefresh(); time.Since reads the one monotonic
\* word of the stamp, so the stamp is that of whichever store came last.
UpdRefreshed(t) ==
    /\ pc[t] = "upd_refreshed"
    /\ lastRefreshTime' = now
    /\ lastDoneAt' = now
    /\ forcedSince' = FALSE
    /\ pc' = [pc EXCEPT ![t] = "upd_unlock"]
    /\ UNCHANGED <<mem, treeVars, lastOp, steps, spellVars, buffVars, hostVars, autoVars, cluster, context, now,
                   updates, loc, runs, mxWriter, mxReaders, refreshMx,
                   forcedPending, stable>>

\* Update: the deferred p.refreshMx.Unlock(); the call returns
UpdUnlock(t) ==
    /\ pc[t] = "upd_unlock"
    /\ refreshMx' = None
    /\ loc' = [loc EXCEPT ![t] = IdleLoc]
    /\ pc' = [pc EXCEPT ![t] = "idle"]
    /\ UNCHANGED <<mem, treeVars, lastOp, steps, spellVars, buffVars, hostVars, autoVars, refreshVars, runs,
                   mxWriter, mxReaders, forcedPending, lastDoneAt, forcedSince,
                   stable>>

\* ClusterInfoChanged(prev, curr): the comparison with p.cluster and
\* p.context and the two stores, no lock held.  An UpdateFn that is running
\* when the change is reported queried the previous cluster: it is marked.
CiCheck(t, currCluster, currContext) ==
    /\ pc[t] = "idle"
    /\ runs[t] < MaxRuns
    /\ runs' = [runs EXCEPT ![t] = @ + 1]
    /\ IF /\ currCluster # "n/a" /\ cluster = currCluster
          /\ context # "n/a" /\ context = currContext
       THEN UNCHANGED <<cluster, context, pc, loc>>
       ELSE /\ cluster' = currCluster
            /\ context' = currContext
            /\ loc' = [u \in Threads |->
                          IF u \in Updaters /\ pc[u] \in InUpdateFn
                          THEN [loc[u] EXCEPT !.stale = TRUE] ELSE loc[u]]
            /\ pc' = [pc EXCEPT ![t] = "ci_reset"]
    /\ UNCHANGED <<mem, treeVars, lastOp, steps, spellVars, buffVars, hostVars, autoVars, lastRefreshTime, now,
                   updates, mxWriter, mxReaders, refreshMx, forcedPending,
                   lastDoneAt, forcedSince, stable>>

\* ClusterInfoChanged: p.Reset(), p.mx.Lock() and the three trees reset
CiReset(t) ==
    /\ pc[t] = "ci_reset"
    /\ CanLock
    /\ mxWriter' = t
    /\ CommitSt(ResetSt(St))
    /\ pc' = [pc EXCEPT ![t] = "ci_unlock"]
    /\ UNCHANGED <<lastOp, steps, spellVars, buffVars, hostVars, mode, refreshVars, loc, runs, mxReaders,
                   refreshMx, forcedPending, lastDoneAt, forcedSince, stable>>

\* ClusterInfoChanged: the deferred p.mx.Unlock() of p.Reset()
CiUnlock(t) ==
    /\ pc[t] = "ci_unlock"
    /\ mxWriter' = None
    /\ stable' = Settled
    /\ pc' = [pc EXCEPT ![t] = "ci_force"]
    /\ UNCHANGED <<mem, treeVars, lastOp, steps, spellVars, buffVars, hostVars, autoVars, refreshVars, loc, runs,
                   mxReaders, refreshMx, forcedPending, lastDoneAt, forcedSince>>

\* ClusterInfoChanged: p.forceRefresh() under p.mx.Lock(); the call returns
CiForce(t) ==
    /\ pc[t] = "ci_force"
    /\ CanLock
    /\ lastRefreshTime' = forceRefresh
    /\ forcedSince' = TRUE
    /\ forcedPending' = TRUE
    /\ pc' = [pc EXCEPT ![t] = "idle"]
    /\ UNCHANGED <<mem, treeVars, lastOp, steps, spellVars, buffVars, hostVars, autoVars, cluster, context, now,
                   updates, loc, runs, mxWriter, mxReaders, refreshMx, lastDoneAt,
                   stable>>

\* HistoryChanged(ws) is called: Index("history", ws) is entered
HwBegin(t, ws) ==
    /\ pc[t] = "idle"
    /\ runs[t] < MaxRuns
    /\ runs' = [runs EXCEPT ![t] = @ + 1]
    /\ loc' = [loc EXCEPT ![t].jobs = <<[name |-> "history", ws |-> ws]>>]
    /\ pc' = [pc EXCEPT ![t] = "ix_lock"]
    /\ UNCHANGED <<mem, treeVars, lastOp, steps, spellVars, buffVars, hostVars, autoVars, refreshVars, mxWriter,
                   mxReaders, refreshMx, forcedPending, lastDoneAt, forcedSince,
                   stable>>

\* Suggest(text) is called; All, Autocomplete and Search begin with p.mx.RLock()
RdLock(t, text) ==
    /\ pc[t] = "idle"
    /\ runs[t] < MaxRuns
    /\ CanRLock
    /\ runs' = [runs EXCEPT ![t] = @ + 1]
    /\ mxReaders' = mxReaders \cup {t}
    /\ loc' = [loc EXCEPT ![t].text = text]
    /\ pc' = [pc EXCEPT ![t] = "rd_read"]
    /\ UNCHANGED <<mem, treeVars, lastOp, steps, spellVars, buffVars, hostVars, autoVars, refreshVars, mxWriter,
                   refreshMx, forcedPending, lastDoneAt, forcedSince, stable>>

\* Suggest: the traversal of the buckets, then the deferred p.mx.RUnlock()
RdRead(t) ==
    /\ pc[t] = "rd_read"
    /\ loc' = [loc EXCEPT ![t].got = Suggest(loc[t].text),
                          ![t].want = stable[loc[t].text]]
    /\ mxReaders' = mxReaders \ {t}
    /\ pc' = [pc EXCEPT ![t] = "rd_done"]
    /\ UNCHANGED <<mem, treeVars, lastOp, steps, spellVars, buffVars, hostVars, autoVars, refreshVars, runs,
                   mxWriter, refreshMx, forcedPending, lastDoneAt, forcedSince,
                   stable>>

\* Suggest has returned its list; the caller drops it
RdDone(t) ==
    /\ pc[t] = "rd_done"
    /\ loc' = [loc EXCEPT ![t] = IdleLoc]
    /\ pc' = [pc EXCEPT ![t] = "idle"]
    /\ UNCHANGED <<mem, treeVars, lastOp, steps, spellVars, buffVars, hostVars, autoVars, refreshVars, runs,
                   mxWriter, mxReaders, refreshMx, forcedPending, lastDoneAt,
                   forcedSince, stable>>

\* the steps of Update() and of the Index calls UpdateFn makes
UpdaterNext(t) ==
    \/ UpdBegin(t)
    \/ UpdLock(t)
    \/ UpdNeed(t)
    \/ IxSync(t)
    \/ IxDelete(t)
    \/ IxUnlock(t)
    \/ UpdRefreshed(t)
    \/ UpdUnlock(t)

\* the steps of ClusterInfoChanged
ClusterNext(t) ==
    \/ \E meta \in ConcMeta : CiCheck(t, meta[1], meta[2])
    \/ CiReset(t)
    \/ CiUnlock(t)
    \/ CiForce(t)

\* the steps of HistoryChanged
HistoryNext(t) ==
    \/ \E ws \in ConcHistories : HwBegin(t, ws)
    \/ IxSync(t)
    \/ IxDelete(t)
    \/ IxUnlock(t)

\* the steps of Suggest
SuggestNext(t) ==
    \/ \E text \in ConcTexts : RdLock(t, text)
    \/ RdRead(t)
    \/ RdDone(t)

\* SpecRefresh: two threads call Update() while a third reports a cluster
\* change and the clock advances
NextRefresh ==
    \/ \E t \in Updaters : UpdaterNext(t)
    \/ ClusterNext("ci")
    \/ Tick

SpecRefresh == Init /\ [][NextRefresh]_vars

\* SpecRead: one thread calls Suggest while others call Update(),
\* HistoryChanged and ClusterInfoChanged
NextRead ==
    \/ UpdaterNext("u1")
    \/ HistoryNext("hw")
    \/ ClusterNext("ci")
    \/ SuggestNext("rd")

SpecRead == Init /\ [][NextRead]_vars

\* the labels of the calls
Labels == {"idle", "upd_lock", "upd_need", "ix_lock", "ix_delete", "ix_unlock",
           "upd_refreshed", "upd_unlock", "ci_reset", "ci_unlock", "ci_force",
           "rd_read", "rd_done"}

\* thread t can take its next step: it has a call left to make, or the
\* mutex its call asks for next is granted
Ready(t) ==
    CASE pc[t] = "idle" -> runs[t] < MaxRuns /\ (t = "rd" => CanRLock)
      [] pc[t] \in {"ix_lock", "ci_reset", "ci_force"} -> CanLock
      [] pc[t] = "upd_lock" -> CanLockRefresh
      [] pc[t] = "upd_need" -> CanRLock
      [] OTHER -> TRUE

\* a step of thread t, as far as its label and its count of calls go
Turn(t) ==
    /\ Ready(t)
    /\ \E l \in Labels, r \in {runs[t], runs[t] + 1} :
           /\ pc' = [pc EXCEPT ![t] = l]
           /\ runs' = [runs EXCEPT ![t] = r]

\* SpecReadFair: SpecRead under the Go scheduler, which runs every goroutine
\* that can run: a call that is not blocked on a mutex takes its next step,
\* and a goroutine blocked on a mutex is woken when the mutex is released.
\* Every step of a thread changes its label or its count of calls, so the
\* fairness of a thread is stated on these two.
SpecReadFair ==
    /\ SpecRead
    /\ WF_<<pc, runs>>(Turn("u1"))
    /\ WF_<<pc, runs>>(Turn("hw"))
    /\ WF_<<pc, runs>>(Turn("ci"))
    /\ WF_<<pc, runs>>(Turn("rd"))

----------------------------------------------------------------------------
(* Reference notions the claims are stated with *)

SeqSet(ss) == {ss[i] : i \in 1..Len(ss)}

NoDuplicates(ss) == \A i, j \in 1..Len(ss) : ss[i] = ss[j] => i = j

\* the strings of a finite set in ascending byte order
RECURSIVE Ascending(_)
Ascending(S) ==
    IF S = {} THEN <<>>
    ELSE LET lo == CHOOSE x \in S : \A y \in S : x = y \/ StrLess(x, y)
         IN <<lo>> \o Ascending(S \ {lo})

\* the strings the properties are probed with
Probes ==
    TreeWords \cup {sN, sNB, sA_N, sA_NB, s_A, <<ChA, SP>>, <<ChA, ChB, ChB>>, <<ChB, ChA>>}

\* the live set of a tree: the probed strings it reports as words
Live(t) == {w \in Probes : Has(t, w)}

\* the texts typed at the prompt: every text of up to three of the bytes
\* a, b, n and space, and some longer ones
TextProbes ==
    SeqsUpTo({ChA, ChB, ChN, SP}, 3)
    \cup {sA_NB, <<ChA, ChB, SP, ChN>>, <<ChA, SP, ChN, SP>>, <<ChA, SP, SP, ChN>>,
          <<ChUpperA>>, <<ChUpperA, SP, ChN>>, <<ChN, 115, SP, ChN>>,
          k9sconfigSet \o <<SP, ChN>>}

\* the last element moved to the front
Rotated(ms) ==
    IF Len(ms) = 0 THEN ms ELSE <<ms[Len(ms)]>> \o SubSeq(ms, 1, Len(ms) - 1)

\* the index of the first occurrence of w in ss, 0 when there is none
FirstIndex(ss, w) ==
    IF w \in SeqSet(ss) THEN CHOOSE i \in 1..Len(ss) : ss[i] = w /\ \A j \in 1..(i - 1) : ss[j] # w
    ELSE 0

----------------------------------------------------------------------------
(* Claims about the standalone tree (SpecTree) *)

\* C1 (as claimed): after Sync(W) on any reachable tree, Has(w) is true
\* exactly for the strings of W and Words() holds exactly the strings of W.
C1_SyncLiveSetIsW ==
    lastOp.op = "Sync" =>
        /\ \A w \in Probes : Has(trie, w) <=> w \in SeqSet(lastOp.words)
        /\ SeqSet(Words(trie, mem)) = SeqSet(lastOp.words)

\* C2: for every non-empty prefix p, Autocomplete(p, ByWord) is the ascending
\* list, without repetition, of the stored words that start with p; after a
\* first InsertAll or Sync of a list into the empty tree the stored words are
\* the strings of that list.
C2_AutocompleteByWord ==
    \A p \in Probes :
        /\ TstAutocomplete(trie, mem, p, sortByWord)
               = Ascending({w \in Live(trie) : HasPrefixStr(w, p)})
        /\ (steps = 1 /\ lastOp.op \in {"InsertAll", "Sync"}) =>
               TstAutocomplete(trie, mem, p, sortByWord)
                   = Ascending({w \in SeqSet(lastOp.words) : HasPrefixStr(w, p)})

\* C2 witness: a tree with a tombstone whose completions of "a" are two
\* words, the one with the space before the one with the letter.
C2_Witness ==
    /\ trie.dirty > 0
    /\ TstAutocomplete(trie, mem, sA, sortByWord) = <<sA_N, sAB>>

\* C15 (as claimed): after any sequence of Insert, InsertAll, Delete, Sync
\* and Reset, Len() is the number of distinct strings w with Has(w) true.
C15_LenIsLiveCount ==
    TstLen(trie) = Cardinality(Live(trie))

\* the entries of the words slot array that are nil, and those that are not
Tombstones(t) == {i \in 1..Len(t.words) : t.words[i] = Nil}
Slots(t) == {i \in 1..Len(t.words) : t.words[i] # Nil}

\* C27: in every reachable tree state length is the number of non-nil entries
\* of the words slot array and dirty is the number of nil entries.
C27_LengthAndDirtyCountSlots ==
    /\ trie.length = Cardinality(Slots(trie))
    /\ trie.dirty = Cardinality(Tombstones(trie))

\* a tree holding a tombstone next to a live slot, reached by a Sync
C27_Witness ==
    /\ lastOp.op = "Sync"
    /\ Tombstones(trie) # {} /\ Slots(trie) # {}
    /\ trie.length = Cardinality(Slots(trie))
    /\ trie.dirty = Cardinality(Tombstones(trie))

----------------------------------------------------------------------------
(* Claims about a tree driven from the empty tree (SpecLaw) *)

\* the words of the calls of a log, in call order
RECURSIVE Flat(_)
Flat(log) == IF Len(log) = 0 THEN <<>> ELSE log[1].ws \o Flat(Tail(log))

\* the calls of a log are all among ops
OnlyCalls(log, ops) == \A i \in 1..Len(log) : log[i].op \in ops

\* the refcount a word has after the Insert and Delete calls of a log
RECURSIVE Count(_, _)
Count(log, w) ==
    IF Len(log) = 0 THEN 0
    ELSE LET n == Count(SubSeq(log, 1, Len(log) - 1), w)
             c == log[Len(log)]
         IN IF c.ws # <<w>> THEN n
            ELSE IF c.op = "Insert" THEN n + 1
            ELSE IF n > 0 THEN n - 1 ELSE 0

\* C13: after distinct non-empty strings have been inserted into the empty
\* tree, one by one or by InsertAll, in any order, Has is true for each of
\* them and false for every other string, the empty string, the strict
\* prefixes and the extensions of stored words included.
C13_HasExactlyInserted ==
    LET log == lastOp.words
        ws == Flat(log)
    IN (OnlyCalls(log, {"Insert", "InsertAll"}) /\ NoDuplicates(ws)
          /\ <<>> \notin SeqSet(ws)) =>
           /\ \A p \in Probes : Has(trie, p) <=> p \in SeqSet(ws)
           /\ ~Has(trie, <<>>)

\* C13 witness: b and ab were inserted: both are words, the strict prefix a
\* of ab and its extension abb are none.
C13_Witness ==
    /\ Flat(lastOp.words) = <<sB, sAB>>
    /\ Has(trie, sAB) /\ Has(trie, sB)
    /\ ~Has(trie, sA)
    /\ ~Has(trie, <<ChA, ChB, ChB>>)

\* C14: after Insert and Delete calls only, Has(w) is true exactly when w
\* has been inserted more often than the deletions that found it stored: k
\* Insert(w) and k Delete(w) leave Has(w) false, k Insert(w) and k-1
\* Delete(w) leave it true; and a Delete of a word that is not stored
\* changes nothing of the tree.
C14_RefcountLaw ==
    /\ [](OnlyCalls(lastOp.words, {"Insert", "Delete"}) =>
            \A w \in LawWords \ {<<>>} :
                Has(trie, w) <=> Count(lastOp.words, w) > 0)
    /\ [][\A w \in LawWords :
            (lastOp'.words = Append(lastOp.words, Call("Delete", <<w>>))
               /\ ~Has(trie, w)) => (trie' = trie /\ mem' = mem)]_vars

\* C14 witness: a was inserted twice and then deleted once, and is stored.
C14_Witness ==
    /\ OnlyCalls(lastOp.words, {"Insert", "Delete"})
    /\ Count(lastOp.words, sA) = 1
    /\ Len(lastOp.words) = 3
    /\ lastOp.words[3] = Call("Delete", <<sA>>)
    /\ Has(trie, sA)

\* the call a step of SpecLaw has just logged
LastCall == lastOp.words[Len(lastOp.words)]

\* C16 (as claimed): Insert(""), InsertAll of a list of empty strings, and
\* Sync of such a list on a tree without words, change neither Len(), nor
\* Words(), nor the longest-word length, nor any Has result, nor the length
\* of the words slot array.
C16_EmptyStringNoOp ==
    [][(/\ Len(lastOp'.words) = Len(lastOp.words) + 1
        /\ SeqSet(LastCall'.ws) = {<<>>}
        /\ \/ LastCall'.op \in {"Insert", "InsertAll"}
           \/ LastCall'.op = "Sync" /\ Words(trie, mem) = <<>>)
       => /\ TstLen(trie') = TstLen(trie)
          /\ Words(trie', mem') = Words(trie, mem)
          /\ trie'.longestWord = trie.longestWord
          /\ \A p \in Probes \cup {<<>>} : Has(trie', p) <=> Has(trie, p)
          /\ Len(trie'.words) = Len(trie.words)]_vars

\* the string a slot of the words array refers to, wrapped so that nil is <<>>
SlotText(t, m, i) == IF t.words[i] = Nil THEN Nil ELSE <<Deref(m, t.words[i])>>

\* ss without the entries equal to w
Without(ss, w) == SelectSeq(ss, LAMBDA x : x # w)

\* the stored position of a live word
StoredPosition(t, v) == Position(t.nodes, NodeGet(t.nodes, v))

\* C28: Delete(w) removes no structural node and shifts no position: every
\* other live word stays live with its stored position and its slot, no slot
\* other than one of w changes and that one becomes a tombstone, every prefix
\* that was reachable stays reachable (HasPrefix(w) included), and
\* Autocomplete(p, ByPosition) afterwards lists the remaining words in their
\* previous relative order.
C28_DeleteFrame ==
    [][(lastOp'.words # lastOp.words
            /\ lastOp'.words[Len(lastOp'.words)].op = "Delete") =>
        LET w == lastOp'.words[Len(lastOp'.words)].ws[1] IN
        /\ Len(trie'.nodes) = Len(trie.nodes)
        /\ \A n \in 1..Len(trie.nodes) :
               /\ trie'.nodes[n].Value = trie.nodes[n].Value
               /\ trie'.nodes[n].Left = trie.nodes[n].Left
               /\ trie'.nodes[n].Right = trie.nodes[n].Right
               /\ trie'.nodes[n].Equal = trie.nodes[n].Equal
        /\ \A p \in Probes : HasPrefix(trie', p) = HasPrefix(trie, p)
        /\ \A v \in Live(trie) \ {w} :
               /\ Has(trie', v)
               /\ StoredPosition(trie', v) = StoredPosition(trie, v)
               /\ SlotText(trie', mem', StoredPosition(trie, v) + 1)
                      = SlotText(trie, mem, StoredPosition(trie, v) + 1)
        /\ Len(trie'.words) = Len(trie.words)
        /\ \A i \in 1..Len(trie.words) :
               \/ SlotText(trie', mem', i) = SlotText(trie, mem, i)
               \/ SlotText(trie, mem, i) = <<w>> /\ SlotText(trie', mem', i) = Nil
        /\ Cardinality({i \in 1..Len(trie.words) :
                           SlotText(trie', mem', i) # SlotText(trie, mem, i)}) <= 1
        /\ (Has(trie, w) /\ ~Has(trie', w)) =>
               \E i \in 1..Len(trie.words) :
                   SlotText(trie, mem, i) = <<w>> /\ SlotText(trie', mem', i) = Nil
        /\ \A p \in Probes :
               TstAutocomplete(trie', mem', p, sortByPosition)
                   = IF Has(trie', w)
                     THEN TstAutocomplete(trie, mem, p, sortByPosition)
                     ELSE Without(TstAutocomplete(trie, mem, p, sortByPosition), w)
    ]_vars

\* C28 witness: "ab", "a" and "b" inserted in that order and "a" deleted: the
\* slot of "a" is a tombstone between the slots of "ab" and "b", the prefix
\* "a" is still reachable and the completions by position are unchanged.
C28_Witness ==
    /\ lastOp.words = <<Call("Insert", <<sAB>>), Call("Insert", <<sA>>),
                        Call("Insert", <<sB>>), Call("Delete", <<sA>>)>>
    /\ ~Has(trie, sA) /\ HasPrefix(trie, sA)
    /\ SlotText(trie, mem, 1) = <<sAB>> /\ trie.words[2] = Nil
    /\ SlotText(trie, mem, 3) = <<sB>>
    /\ StoredPosition(trie, sAB) = 0 /\ StoredPosition(trie, sB) = 2
    /\ TstAutocomplete(trie, mem, sA, sortByPosition) = <<sAB>>

\* the strings of the slots of words, nil slots as <<>>
SlotTexts(t, m) == [i \in 1..Len(t.words) |-> SlotText(t, m, i)]

\* dirty > 0.33 x length on the integer counters, as a comparison of products
Exceeded(t) == t.dirty * DirtyDen > DirtyNum * t.length

\* the tree a Sync(ws) leaves after a reset: one slot per entry of ws in the
\* order of ws, no tombstone, every stored position the slot of its word
RebuiltFrom(t, m, ws) ==
    /\ t.dirty = 0
    /\ Tombstones(t) = {}
    /\ SlotTexts(t, m) = [i \in 1..Len(ws) |-> <<ws[i]>>]
    /\ \A v \in Live(t) : SlotText(t, m, StoredPosition(t, v) + 1) = <<v>>

\* C29: a Sync of a non-empty list resets the tree first exactly when
\* dirty > 0.33 x length held before it: then dirty is 0 afterwards, words has
\* no tombstone and its slots are the entries of the list in order; otherwise
\* the earlier tombstones stay, the earlier slots keep their place, and the
\* words still held keep their positions.
C29_SyncThreshold ==
    [][(lastOp'.words # lastOp.words
            /\ lastOp'.words[Len(lastOp'.words)].op = "Sync"
            /\ lastOp'.words[Len(lastOp'.words)].ws # <<>>) =>
        LET ws == lastOp'.words[Len(lastOp'.words)].ws IN
        IF Exceeded(trie)
        THEN RebuiltFrom(trie', mem', ws)
        ELSE /\ Len(trie'.words) >= Len(trie.words)
             /\ \A i \in Tombstones(trie) : trie'.words[i] = Nil
             /\ \A i \in 1..Len(trie.words) :
                    \/ SlotText(trie', mem', i) = SlotText(trie, mem, i)
                    \/ trie'.words[i] = Nil
             /\ trie'.dirty >= trie.dirty
             /\ \A v \in Live(trie) \cap Live(trie') :
                    StoredPosition(trie', v) = StoredPosition(trie, v)
    ]_vars

\* C29 witness: four words indexed and one deleted leave dirty 1 and length 3,
\* 1 > 0.99, and the Sync of ["b", "a"] rebuilds the tree: two slots, "b" first.
C29_Witness ==
    /\ lastOp.words = <<Call("InsertAll", <<sA, sAB, sB, sN>>),
                        Call("Delete", <<sA>>), Call("Sync", <<sB, sA>>)>>
    /\ SlotTexts(trie, mem) = <<<<sB>>, <<sA>>>>
    /\ trie.dirty = 0 /\ trie.length = 2
    /\ StoredPosition(trie, sB) = 0 /\ StoredPosition(trie, sA) = 1

\* a Sync below the threshold: five words, one deleted, dirty 1 and length 4,
\* 1 <= 1.32; the tombstone of "a" stays in the first slot and the three
\* words the list does not name are tombstoned next to it
C29_Kept ==
    /\ lastOp.words = <<Call("InsertAll", <<sA, sAB, sB, sN>>), Call("Insert", <<sA_N>>),
                        Call("Delete", <<sA>>), Call("Sync", <<sB, sA>>)>>
    /\ trie.words[1] = Nil
    /\ trie.dirty = 4

----------------------------------------------------------------------------
(* Claims about the PromptAutocompleter (Spec) *)

\* the part of Suggest(text) that follows the history block of Autocomplete
AfterHistory(text) ==
    SubSeq(Autocomplete(text), Len(HistoryEntries(ToLower(text))) + 1,
           Len(Autocomplete(text)))

\* C3 (as claimed): in the list Suggest(text) returns, no bucket contributes
\* one string more than once: the alias, namespace and history parts of All
\* and of Search, and the history part and the rest of Autocomplete, are each
\* free of repetitions.
C3_NoBucketRepeats ==
    /\ NoDuplicates(Words(aliasTst, mem))
    /\ NoDuplicates(Words(namespacesTst, mem))
    /\ NoDuplicates(Words(cmdHistoryTst, mem))
    /\ \A text \in TextProbes \ {<<>>} :
        /\ NoDuplicates(StringSearch(mem, cmdHistoryTst.words, ToLower(text), sortByPosition))
        /\ NoDuplicates(StringSearch(mem, namespacesTst.words, ToLower(text), sortByWord))
        /\ NoDuplicates(StringSearch(mem, aliasTst.words, ToLower(text), sortByWord))
        /\ NoDuplicates(HistoryEntries(ToLower(text)))
        /\ NoDuplicates(AfterHistory(text))

\* C4 (as claimed): after Index("history", H), H most recent first, the
\* result of history.Autocomplete(p, ByPosition) holds the commands of H that
\* start with p, a more recent command after every less recent one.
C4_HistoryByRecency ==
    (lastOp.op = "Index" /\ lastOp.name = "history") =>
        \A p \in TextProbes \ {<<>>} :
            LET r == TstAutocomplete(cmdHistoryTst, mem, p, sortByPosition)
                H == lastOp.words
            IN /\ SeqSet(r) = {w \in SeqSet(H) : HasPrefixStr(w, p)}
               /\ \A i, j \in 1..Len(r) :
                      i < j => FirstIndex(H, r[i]) > FirstIndex(H, r[j])

\* the texts 'v p': two tokens, nothing before v, nothing after p
TwoTokens(t) ==
    /\ Len(Fields(t)) = 2
    /\ t[1] # SP
    /\ t[Len(t)] # SP

\* the parts of a probe that no state changes: its lower-case form, its
\* fields and its head up to the last space; the probes of two tokens and
\* those without a space
TextLower == [text \in TextProbes |-> ToLower(text)]
TextFields == [text \in TextProbes |-> Fields(ToLower(text))]
TextHead ==
    [text \in TextProbes |-> SubSeq(ToLower(text), 1, LastIndexSP(ToLower(text)) + 1)]
TextTwoTokens == {text \in TextProbes \ {<<>>} : TwoTokens(ToLower(text))}
TextNoSpace == {text \in TextProbes \ {<<>>} : SP \notin SeqSet(ToLower(text))}

\* C8: in AutoComplete mode, for a text 'v p' with v outside
\* disableNamespaceFor, Suggest returns the history block followed by
\* text[:lastSpace+1] + n for the namespaces n that start with p, in ascending
\* order, those that are history words left out; no string occurs twice.
C8_NamespaceCompletion ==
    mode = SuggestAutoComplete =>
        LET namespaces == Live(namespacesTst)
        IN \A text \in TextTwoTokens :
            LET t == TextLower[text]
            IN TextFields[text][1] \notin disableNamespaceFor =>
                LET head == TextHead[text]
                    ns == Ascending({n \in namespaces :
                                        HasPrefixStr(n, TextFields[text][2])})
                    keep == {i \in 1..Len(ns) : ~Has(cmdHistoryTst, head \o ns[i])}
                    sg == Suggest(text)
                IN /\ sg = HistoryEntries(t)
                          \o [k \in 1..Cardinality(keep) |-> head \o ns[Nth(keep, k)]]
                   /\ NoDuplicates(sg)

\* C8 witness: history holds "a n", the namespaces n and nb are indexed, and
\* "a n" is completed to itself, from history, and to "a nb".
C8_Witness ==
    /\ mode = SuggestAutoComplete
    /\ Has(cmdHistoryTst, sA_N)
    /\ Live(namespacesTst) = {sN, sNB}
    /\ Suggest(sA_N) = <<sA_N, sA_NB>>

\* C9: in AutoComplete mode, for a text that is one token: when a history
\* word starts with the text, Suggest returns the history block, which holds
\* those history words and nothing else; otherwise it returns the aliases
\* that start with the text in ascending order.
C9_SingleToken ==
    mode = SuggestAutoComplete =>
        LET history == Live(cmdHistoryTst)
            aliases == Live(aliasTst)
        IN \A text \in TextNoSpace :
            LET t == TextLower[text]
                hs == {w \in history : HasPrefixStr(w, t)}
                sg == Suggest(text)
            IN IF hs # {}
               THEN /\ sg = HistoryEntries(t)
                    /\ SeqSet(sg) = hs
                    /\ NoDuplicates(sg)
               ELSE sg = Ascending({w \in aliases : HasPrefixStr(w, t)})

\* C9 witness: "a" is an alias and starts a history word, and Suggest("a")
\* returns history only, while Suggest("b") returns the alias b.
C9_Witness ==
    /\ mode = SuggestAutoComplete
    /\ Has(aliasTst, sA)
    /\ Has(aliasTst, sB)
    /\ Has(cmdHistoryTst, sAB)
    /\ ~Has(cmdHistoryTst, sA)
    /\ Suggest(sA) = <<sAB>>
    /\ Suggest(sB) = <<sB>>

\* C10 (as claimed): whenever history.Autocomplete(text, ByPosition) yields
\* m1, ..., mn with n >= 1, Autocomplete(text) starts with mn, m1, ..., m(n-1).
C10_RotationAlways ==
    \A text \in TextProbes :
        LET ms == TstAutocomplete(cmdHistoryTst, mem, text, sortByPosition)
        IN Len(ms) >= 1 =>
            /\ Len(Autocomplete(text)) >= Len(ms)
            /\ SubSeq(Autocomplete(text), 1, Len(ms)) = Rotated(ms)

\* C10 (amended): with t the lowercased text, whenever t does not begin with
\* a space and history.Autocomplete(t, ByPosition) yields m1, ..., mn with
\* n >= 1, Autocomplete(text) starts with mn, m1, ..., m(n-1).
C10_RotationUnlessLeadingSpace ==
    \A text \in TextProbes \ {<<>>} :
        LET t == ToLower(text)
            ms == TstAutocomplete(cmdHistoryTst, mem, t, sortByPosition)
        IN (t[1] # SP /\ Len(ms) >= 1) =>
            /\ Len(Autocomplete(text)) >= Len(ms)
            /\ SubSeq(Autocomplete(text), 1, Len(ms)) = Rotated(ms)

\* C10 witness: three history words start with "a"; the newest, "a n", comes
\* first and the two older ones follow oldest first.
C10_Witness ==
    /\ TstAutocomplete(cmdHistoryTst, mem, sA, sortByPosition) = <<sA, sAB, sA_N>>
    /\ Autocomplete(sA) = <<sA_N, sA, sAB>>

\* "ns", a member of disableNamespaceFor
sNS == <<ChN, 115>>

\* texts whose first token is a verb of disableNamespaceFor
VerbProbes ==
    {sNS \o <<SP, ChN>>, sNS \o <<SP>>, sNS \o <<SP, SP, ChN>>,
     <<78, 83, SP, ChN>>,
     k9sconfigSet \o <<SP, ChN>>, k9sconfigSet \o <<SP>>,
     k9sconfigSet \o <<SP, ChB>>, k9sconfigSet \o <<SP, ChN, SP>>}

\* the terms of Autocomplete: the fields of the text, an empty second term
\* added when the text is one field and a trailing space
TermsOf(t) ==
    IF Len(Fields(t)) = 1 /\ t[Len(t)] = SP THEN Append(Fields(t), <<>>)
    ELSE Fields(t)

\* the texts that reach the target selection of the two-token branch
SelectsTarget(t) ==
    /\ t[1] # SP
    /\ Len(TermsOf(t)) = 2
    /\ ~(Len(TermsOf(t)[2]) > 0 /\ t[Len(t)] = SP)

\* the parts of a probe that no state changes: its lower-case form, its terms
\* and its head up to the last space
VerbLower == [text \in VerbProbes |-> ToLower(text)]
VerbTerms == [text \in VerbProbes |-> TermsOf(ToLower(text))]
VerbHead ==
    [text \in VerbProbes |-> SubSeq(ToLower(text), 1, LastIndexSP(ToLower(text)) + 1)]
VerbSelects == {text \in VerbProbes : SelectsTarget(ToLower(text))}

\* C11 (as claimed): in the two-token branch, when the first token is a
\* member of disableNamespaceFor, k9sconfig-set included, Autocomplete
\* returns the history block and nothing after it.
C11_DisabledVerbsStop ==
    \A text \in VerbSelects :
        VerbTerms[text][1] \in disableNamespaceFor =>
            Autocomplete(text) = HistoryEntries(VerbLower[text])

\* C11 (amended): in the two-token branch, when the first token is a member
\* of disableNamespaceFor other than k9sconfig-set, Autocomplete returns the
\* history block and nothing after it.
C11_DisabledVerbsButConfigStop ==
    \A text \in VerbSelects :
        VerbTerms[text][1] \in disableNamespaceFor \ {k9sconfigSet} =>
            Autocomplete(text) = HistoryEntries(VerbLower[text])

\* C11 witness: the namespaces n and nb are indexed and "ns n", "ns " get no
\* completion.
C11_Witness ==
    /\ Live(namespacesTst) = {sN, sNB}
    /\ Autocomplete(sNS \o <<SP, ChN>>) = <<>>
    /\ Autocomplete(sNS \o <<SP>>) = <<>>

\* C12: in the two-token branch, when the first token is k9sconfig-set,
\* Autocomplete returns the history block followed, for an empty second
\* token, by the words of the configSet index and otherwise by
\* 'k9sconfig-set ' + k for the config keys k that start with the second
\* token, in ascending order, those that are history words left out; the
\* namespaces index contributes nothing.
C12_ConfigSetCompletion ==
    \A text \in VerbSelects :
        VerbTerms[text][1] = k9sconfigSet =>
            LET term == VerbTerms[text][2]
                head == VerbHead[text]
                ks == Ascending({k \in Live(configSetTst) : HasPrefixStr(k, term)})
                keep == {i \in 1..Len(ks) : ~Has(cmdHistoryTst, head \o ks[i])}
            IN Autocomplete(text)
                  = HistoryEntries(VerbLower[text])
                    \o (IF term = <<>> THEN Words(configSetTst, mem)
                        ELSE [k \in 1..Cardinality(keep) |-> head \o ks[Nth(keep, k)]])

\* C12 witness: the config keys are b and n, the namespaces n and nb;
\* "k9sconfig-set n" is completed to "k9sconfig-set n" alone and
\* "k9sconfig-set " to both keys.
C12_Witness ==
    /\ Live(namespacesTst) = {sN, sNB}
    /\ Live(configSetTst) = {sB, sN}
    /\ Autocomplete(k9sconfigSet \o <<SP, ChN>>) = <<k9sconfigSet \o <<SP, ChN>>>>
    /\ Len(Autocomplete(k9sconfigSet \o <<SP>>)) = 2

\* the number of entries of ss equal to w
Occurrences(ss, w) == Cardinality({i \in 1..Len(ss) : ss[i] = w})

\* r holds the strings of ss, each as often as ss does, in ascending order
SortedFrom(r, ss) ==
    /\ Len(r) = Len(ss)
    /\ \A w \in SeqSet(r) \cup SeqSet(ss) : Occurrences(r, w) = Occurrences(ss, w)
    /\ \A i, j \in 1..Len(r) : i < j => ~StrLess(r[j], r[i])

\* Suggest("") is the alias words in ascending order, then in FullText mode
\* the namespace words in ascending order, then the history words as stored
AllInBlocks ==
    LET r == Suggest(<<>>)
        a == Len(Words(aliasTst, mem))
        n == IF mode = SuggestFullText THEN Len(Words(namespacesTst, mem)) ELSE 0
        h == Len(Words(cmdHistoryTst, mem))
    IN /\ Len(r) = a + n + h
       /\ SortedFrom(SubSeq(r, 1, a), Words(aliasTst, mem))
       /\ mode = SuggestFullText =>
              SortedFrom(SubSeq(r, a + 1, a + n), Words(namespacesTst, mem))
       /\ SubSeq(r, a + n + 1, a + n + h) = Words(cmdHistoryTst, mem)

\* a non-empty text goes to Autocomplete in AutoComplete mode and to Search in
\* FullText mode
DispatchByMode ==
    \A text \in TextProbes \ {<<>>} :
        /\ mode = SuggestAutoComplete => Suggest(text) = Autocomplete(text)
        /\ mode = SuggestFullText => Suggest(text) = Search(text)

\* C20 (as claimed): Suggest("") returns the alias words sorted, then the
\* namespace words sorted only in FullText mode, then the history words in
\* stored order, which after Index("history", H), H most recent first, ends
\* with the most recent command of H; a non-empty text is dispatched by mode.
C20_SuggestAllAndDispatch ==
    /\ AllInBlocks
    /\ DispatchByMode
    /\ (lastOp.op = "Index" /\ lastOp.name = "history" /\ Len(lastOp.words) > 0) =>
           LET r == Suggest(<<>>) IN Len(r) > 0 /\ r[Len(r)] = lastOp.words[1]

\* the non-empty words w of tree t, Has(w) true, that contain text
LiveMatches(t, text) ==
    {w \in Probes : w # <<>> /\ Has(t, w) /\ Contains(w, text)}

\* the position the tree keeps for the word w
PositionOf(t, w) == Position(t.nodes, NodeGet(t.nodes, w))

\* the three blocks of Search(text)
SearchHistory(text) == StringSearch(mem, cmdHistoryTst.words, ToLower(text), sortByPosition)
SearchNamespaces(text) == StringSearch(mem, namespacesTst.words, ToLower(text), sortByWord)
SearchAliases(text) == StringSearch(mem, aliasTst.words, ToLower(text), sortByWord)

\* C21 (as claimed): Search(text) is the live history words that contain the
\* lowercased text, by ascending position, then the live namespaces that
\* contain it, ascending, then the live aliases that contain it, ascending;
\* a word its tree does not hold never appears.
C21_SearchBlocks ==
    \A text \in TextProbes \ {<<>>} :
        LET low == ToLower(text)
            h == SearchHistory(text)
            n == SearchNamespaces(text)
            a == SearchAliases(text)
        IN /\ Search(text) = h \o n \o a
           /\ SeqSet(h) = LiveMatches(cmdHistoryTst, low)
           /\ SeqSet(n) = LiveMatches(namespacesTst, low)
           /\ SeqSet(a) = LiveMatches(aliasTst, low)
           /\ \A i, j \in 1..Len(h) :
                  i < j => PositionOf(cmdHistoryTst, h[i]) <= PositionOf(cmdHistoryTst, h[j])
           /\ \A i, j \in 1..Len(n) : i < j => ~StrLess(n[j], n[i])
           /\ \A i, j \in 1..Len(a) : i < j => ~StrLess(a[j], a[i])

\* the texts of two tokens that end with a space: the second token is committed
Committed(t) ==
    /\ Len(Fields(ToLower(t))) = 2
    /\ t[1] # SP
    /\ t[Len(t)] = SP

\* C22: in AutoComplete mode a text of exactly two tokens that ends with a
\* space gets the history block only, no namespace or config key is appended;
\* a text that begins with a space gets the empty list.
C22_CommittedSecondTokenStops ==
    mode = SuggestAutoComplete =>
        \A text \in TextProbes \ {<<>>} :
            /\ text[1] = SP => Suggest(text) = <<>>
            /\ Committed(text) =>
                   Suggest(text) =
                       Rotated(TstAutocomplete(cmdHistoryTst, mem, ToLower(text), sortByPosition))

\* C22 witness: with the namespaces n and nb and the history word " a"
\* indexed, "a n" is completed, "a n " and " a" get nothing.
C22_Witness ==
    /\ mode = SuggestAutoComplete
    /\ Has(namespacesTst, sN) /\ Has(namespacesTst, sNB)
    /\ Has(cmdHistoryTst, s_A)
    /\ Committed(<<ChA, SP, ChN, SP>>)
    /\ Suggest(<<ChA, SP, ChN, SP>>) = <<>>
    /\ Suggest(s_A) = <<>>
    /\ Suggest(sA_N) = <<sA_N, sA_NB>>

\* C25: ClusterInfoChanged(prev, curr) changes nothing (buckets, stored
\* cluster and context, lastRefreshTime) when curr's cluster and context both
\* equal the stored ones and neither is "n/a"; in every other case the stored
\* identifiers become curr's, history, aliases and namespaces are emptied and
\* the configuration keys keep their words.
C25_ClusterInfoChanged ==
    [][lastOp'.op = "ClusterInfoChanged" =>
           LET currCluster == lastOp'.name
               currContext == lastOp'.words[1]
           IN IF /\ currCluster = cluster /\ currContext = context
                 /\ currCluster # "n/a" /\ currContext # "n/a"
              THEN UNCHANGED <<mem, autoVars, cluster, context, lastRefreshTime>>
              ELSE /\ cluster' = currCluster
                   /\ context' = currContext
                   /\ cmdHistoryTst' = NewTernarySearchTree
                   /\ aliasTst' = NewTernarySearchTree
                   /\ namespacesTst' = NewTernarySearchTree
                   /\ Words(configSetTst', mem') = Words(configSetTst, mem)
                   /\ \A w \in Probes : Has(configSetTst', w) <=> Has(configSetTst, w)]_vars

\* C25 witness: the configuration keys were indexed, then a cluster change
\* came in: the keys are still there, the stored identifiers are the new ones.
C25_Witness ==
    /\ lastOp.op = "ClusterInfoChanged"
    /\ lastOp.name = "c1" /\ lastOp.words = <<"c2">>
    /\ cluster = "c1" /\ context = "c2"
    /\ Words(configSetTst, mem) = <<sN, sB>>
    /\ Words(cmdHistoryTst, mem) = <<>>

----------------------------------------------------------------------------
(* Claims about concurrent calls (SpecRefresh, SpecRead) *)

\* C5 (as claimed): once a ClusterInfoChanged with a changed or unknown
\* cluster or context has returned, no Update() call that begins afterwards
\* returns without UpdateFn having been invoked since the change, whatever
\* the interleaving.
C5_NextUpdateRefreshes ==
    \A t \in Updaters :
        (pc[t] = "upd_unlock" /\ loc[t].must /\ forcedPending) => loc[t].ran

\* C6: the list a Suggest call returns is the list the buckets give as some
\* completed writer left them; no read sees a bucket between the insertions
\* and the deletions of an Index call.
C6_NoTornRead ==
    pc["rd"] = "rd_done" => loc["rd"].got = loc["rd"].want

\* C6 witness: Suggest("") has returned the aliases of UpdateFn followed by
\* a history that HistoryChanged has replaced by the single command "b".
C6_Witness ==
    /\ pc["rd"] = "rd_done"
    /\ loc["rd"].text = <<>>
    /\ loc["rd"].got = <<sA, sAB, sB>>

\* C7: Update() invokes UpdateFn exactly when now - lastRefreshTime exceeds
\* the refresh rate, and refreshed() then stores the clock; two updaters
\* are never inside UpdateFn together; a caller that evaluates needRefresh
\* within the refresh rate of the last refreshed(), no forceRefresh() having
\* run since, skips UpdateFn.
C7_UpdateCollapses ==
    /\ [](Cardinality({t \in Updaters : pc[t] \in InUpdateFn}) <= 1)
    /\ [][\A t \in Updaters :
            /\ (pc[t] = "upd_need" /\ pc'[t] # "upd_need") =>
                  /\ (updates' = updates + 1 /\ pc'[t] = "ix_lock")
                        <=> (now - lastRefreshTime > RefreshRate)
                  /\ (lastDoneAt >= 0 /\ ~forcedSince
                        /\ now - lastDoneAt <= RefreshRate)
                        => (updates' = updates /\ pc'[t] = "upd_unlock")
            /\ (pc[t] = "upd_refreshed" /\ pc'[t] # "upd_refreshed") =>
                  lastRefreshTime' = now]_vars

\* C7 witness: u2 entered Update() while u1 was inside it, evaluated
\* needRefresh after u1's refreshed() and skipped UpdateFn, which has run once.
C7_Witness ==
    /\ pc["u2"] = "upd_unlock"
    /\ loc["u2"].over
    /\ ~loc["u2"].ran
    /\ updates = 1
    /\ lastDoneAt = now
    /\ ~forcedSince

----------------------------------------------------------------------------
(* Claims about the spellchecker (SpecSpell) *)

\* the words the reference tree holds
Stored == {w \in SpellWords : Has(trie, w)}

\* the word of the Candidates call that produced `candidates`
Typo == lastOp.words[1]

AfterCandidates == lastOp.op = "Candidates"

Suggested == {candidates[k].Suggestion : k \in 1..Len(candidates)}

\* x and w have the same length and differ in exactly one character
OneReplaced(x, w) ==
    /\ Len(x) = Len(w)
    /\ Cardinality({k \in 1..Len(w) : x[k] # w[k]}) = 1

\* every string word[:i] + c + word[i+1:], i in [0, len(word)), c a symbol
Replacements(word) ==
    {Upto(word, i) \o <<symbols[k]>> \o From(word, i + 1) :
        i \in 0..(Len(word) - 1), k \in 1..Len(symbols)}

\* C17: the Replace edit keeps word[:i] + c + word[i+1:], for every index i
\* (0 included) and every symbol c, exactly when that string is a prefix path
\* of the reference tree; so a typo of at least minimumWordLength characters
\* that differs from a stored word of its length in one character gets that
\* word as a suggestion.
C17_ReplaceFindsStoredWord ==
    AfterCandidates =>
        /\ SeqSet(replace(trie, Typo)) = {c \in Replacements(Typo) : HasPrefix(trie, c)}
        /\ ~(Len(Typo) < minimumWordLength) =>
               \A w \in Stored : OneReplaced(Typo, w) => w \in Suggested

\* C18: for every stored word w and every typo x of at least
\* minimumWordLength characters that is w with one pair of adjacent characters
\* swapped or with one character removed, Candidates(x) has an entry whose
\* Suggestion is w and an entry for every stored word that has w as a prefix.
C18_SwapAndRemovalFound ==
    (AfterCandidates /\ ~(Len(Typo) < minimumWordLength)) =>
        \A w \in Stored :
            Typo \in Swaps(w) \cup Removals(w) =>
                \A v \in Stored : HasPrefixStr(v, w) => v \in Suggested

\* C18 witness: with pod and pods stored, Candidates("ods"), pods without its
\* first character, suggests pods, and nothing else.
C18_Witness ==
    /\ AfterCandidates
    /\ Typo = <<ChO, ChD, ChS>>
    /\ Typo \in Removals(sPODS)
    /\ {sPOD, sPODS} \subseteq Stored
    /\ Suggested = {sPODS}

\* the pairs Candidates(Typo) emits, in the order of its two loops
Emitted ==
    IF Len(Typo) < minimumWordLength THEN <<>>
    ELSE Emissions(trie, mem, variations(trie, Typo), Typo)

\* the indices of the emissions that bring a suggestion for the first time
FirstEmissions ==
    SelectSeq([k \in 1..Len(Emitted) |-> k],
              LAMBDA k : \A j \in 1..(k - 1) : Emitted[j].Suggestion # Emitted[k].Suggestion)

\* the last emission that carries the suggestion g
LastEmission(g) ==
    Emitted[CHOOSE k \in 1..Len(Emitted) :
                /\ Emitted[k].Suggestion = g
                /\ \A j \in (k + 1)..Len(Emitted) : Emitted[j].Suggestion # g]

\* C19: Candidates(word) never has two entries with the same Suggestion: each
\* emitted suggestion has one entry, at the output index of its first
\* emission, carrying the variation of its last emission.
C19_LastWriterWins ==
    AfterCandidates =>
        /\ \A i, j \in 1..Len(candidates) :
               candidates[i].Suggestion = candidates[j].Suggestion => i = j
        /\ Len(candidates) = Len(FirstEmissions)
        /\ \A i \in 1..Len(candidates) :
               candidates[i] = LastEmission(Emitted[FirstEmissions[i]].Suggestion)

\* C19 witness: with pod and pods stored, Candidates("pdo") first emits both
\* words for the variation "po" and then again for "pod"; the two entries
\* stay in place and carry "pod".
C19_Witness ==
    /\ AfterCandidates
    /\ Typo = <<ChP, ChD, ChO>>
    /\ Len(Emitted) = 4
    /\ Emitted[1] = Candidate(sPO, sPOD)
    /\ Emitted[2] = Candidate(sPO, sPODS)
    /\ candidates = <<Candidate(sPOD, sPOD), Candidate(sPOD, sPODS)>>

\* C26: Candidates(word) returns the empty list for every word shorter than
\* minimumWordLength, whatever the reference tree holds.
C26_ShortWordNoCandidates ==
    (AfterCandidates /\ Len(Typo) < minimumWordLength) => candidates = <<>>

\* C26 witness: with pod stored, Candidates("po") returns nothing, although
\* "po" is a prefix of pod.
C26_Witness ==
    /\ AfterCandidates
    /\ Typo = sPO
    /\ Len(Typo) < minimumWordLength
    /\ Has(trie, sPOD)
    /\ candidates = <<>>

\* every string word[:i] + c + word[i:], i in [0, len(word)], c a symbol
Insertions(word) ==
    {Upto(word, i) \o <<symbols[k]>> \o From(word, i) :
        i \in 0..Len(word), k \in 1..Len(symbols)}

\* the strings one delete, adjacent swap, replace or insert away from word
OneEdit(word) ==
    Removals(word) \cup Swaps(word) \cup Replacements(word) \cup Insertions(word)

\* C30: every entry returned by Candidates(input) has a Suggestion that is a
\* live word of the reference tree at least as long as input, a Word that is a
\* prefix of the Suggestion and one delete, adjacent swap, replace or insert
\* away from input, and Score 0.
C30_EntriesAreOneEditCompletions ==
    AfterCandidates =>
        \A k \in 1..Len(candidates) :
            /\ Has(trie, candidates[k].Suggestion)
            /\ Len(candidates[k].Suggestion) >= Len(Typo)
            /\ HasPrefixStr(candidates[k].Suggestion, candidates[k].Word)
            /\ candidates[k].Word \in OneEdit(Typo)
            /\ candidates[k].Score = 0

\* C30 witness: Candidates("pods") on a tree holding pod and pods: the removal
\* "pod" completes to both, and only "pods" is long enough to be returned.
C30_Witness ==
    /\ AfterCandidates /\ Typo = sPODS
    /\ Has(trie, sPOD) /\ Has(trie, sPODS)
    /\ sPODS \in Suggested /\ sPOD \notin Suggested
    /\ \E k \in 1..Len(candidates) : candidates[k].Word # candidates[k].Suggestion

----------------------------------------------------------------------------
(* Claims about the input buffer (SpecBuff) *)

TextMutations == {"Add", "Delete", "Insert", "DeleteAt", "DeleteRange", "ClearText"}

\* C23 (as claimed): after every text mutation of the FishBuff (Add, Delete,
\* Insert, DeleteAt, DeleteRange, ClearText) the ring is what SuggestionFunc
\* gives for the text now in the buffer, the ring index is 0, and the
\* suggestion handed to the listeners is the first of the ring, or empty when
\* the ring or the buffer is empty.
C23_RingFollowsText ==
    lastOp.op \in TextMutations =>
        /\ suggestions = SuggestionFn(buff, suggestMode)
        /\ suggestionIndex = 0
        /\ suggestion = IF Len(suggestions) = 0 \/ Len(buff) = 0
                        THEN <<>> ELSE suggestions[1]

\* the index after n more NextSuggestion calls, after n more PrevSuggestion calls
RECURSIVE NextTimes(_, _, _)
NextTimes(i, k, n) == IF n = 0 THEN i ELSE NextTimes(NextIndex(i, k), k, n - 1)

RECURSIVE PrevTimes(_, _, _)
PrevTimes(i, k, n) == IF n = 0 THEN i ELSE PrevTimes(PrevIndex(i, k), k, n - 1)

\* C24: on a ring of k > 0 suggestions and with no text change in between, a
\* NextSuggestion call returns the suggestion it moves to, k - 1 further
\* calls bring the index back to where it was, and so does one
\* PrevSuggestion; the same for PrevSuggestion with the roles swapped.  On an
\* empty ring both return ("", false) and leave the index as it is.
C24_RingWraps ==
    [][LET k == Len(suggestions)
           i == suggestionIndex
           j == suggestionIndex'
       IN /\ (lastOp'.op = "NextSuggestion" /\ k > 0) =>
                 /\ ret' = <<suggestions[j + 1], TRUE>>
                 /\ NextTimes(j, k, k - 1) = i
                 /\ PrevIndex(j, k) = i
          /\ (lastOp'.op = "PrevSuggestion" /\ k > 0) =>
                 /\ ret' = <<suggestions[j + 1], TRUE>>
                 /\ PrevTimes(j, k, k - 1) = i
                 /\ NextIndex(j, k) = i
          /\ (lastOp'.op \in {"NextSuggestion", "PrevSuggestion"} /\ k = 0) =>
                 /\ ret' = <<<<>>, FALSE>>
                 /\ j = i]_vars

\* C24 witness: a NextSuggestion call on a ring of three suggestions has
\* wrapped from the last suggestion to the first.
C24_Witness ==
    /\ lastOp.op = "NextSuggestion"
    /\ Len(suggestions) = 3
    /\ suggestionIndex = 0
    /\ ret = <<suggestions[1], TRUE>>
    /\ PrevIndex(suggestionIndex, 3) = 2

\* C40: in every reachable FishBuff state either the suggestion list is empty
\* and the index is 0, or 0 <= suggestionIndex < len(suggestions), so that
\* CurrentSuggestion reads inside the list.
C40_IndexInRange ==
    IF Len(suggestions) = 0 THEN suggestionIndex = 0
    ELSE 0 <= suggestionIndex /\ suggestionIndex < Len(suggestions)

\* C40 witness: a PrevSuggestion call on a ring of three suggestions has
\* wrapped from the first suggestion to the last.
C40_Witness ==
    /\ lastOp.op = "PrevSuggestion"
    /\ Len(suggestions) = 3
    /\ suggestionIndex = 2
    /\ ret = <<suggestions[3], TRUE>>

----------------------------------------------------------------------------
(* Claims about the History (SpecHistory) *)

\* C39 (as claimed): after any sequence of Push, Pop, Set, Clear and SetLimit
\* the number of stored commands does not exceed the current limit, and no
\* Push has failed on a slice bound.
C39_WithinLimit ==
    /\ ~hist.crashed
    /\ hist.commands.len <= hist.limit

\* C32 (as claimed): with the autocompleter listening, after a Push of a
\* non-empty command List()[0] is that command in lower case; pushing the
\* command pushed immediately before leaves the list as it is; and a Push on
\* a full list drops the last entry of List(), the least recently pushed.
C32_PushKeepsRecencyOrder ==
    [][(lastOp'.op = "Push" /\ lastOp' # lastOp /\ ~hist'.crashed
            /\ lastOp'.words[1] # <<>>) =>
        LET c == ToLower(lastOp'.words[1])
            before == SliceSeq(mem, hist.commands)
            after == SliceSeq(mem', hist'.commands)
        IN /\ after[1] = c
           /\ (lastOp.op = "Push" /\ lastOp.words = lastOp'.words) => after = before
           /\ (Len(before) = hist.limit /\ Len(before) > 0 /\ before[1] # c) =>
                  after = <<c>> \o SubSeq(before, 1, Len(before) - 1)
    ]_vars

\* the string a terminal node of the history tree refers to, for the probed
\* strings whose path ends in a word node
NodeText(w) == Deref(mem, cmdHistoryTst.nodes[NodeGet(cmdHistoryTst.nodes, w)].Data[1].WordPtr)

\* C31 (as claimed): the string read from each terminal node of the history
\* tree is the string whose path leads to the node, every result of
\* Autocomplete(p, .) on it starts with p, and Words() is the set of strings
\* for which Has is true.
C31_StableReference ==
    ~hist.crashed =>
        /\ \A w \in Live(cmdHistoryTst) : NodeText(w) = w
        /\ \A p \in Probes : \A sortBy \in {sortByWord, sortByPosition} :
               \A k \in 1..Len(TstAutocomplete(cmdHistoryTst, mem, p, sortBy)) :
                   HasPrefixStr(TstAutocomplete(cmdHistoryTst, mem, p, sortBy)[k], p)
        /\ SeqSet(Words(cmdHistoryTst, mem)) = Live(cmdHistoryTst)

----------------------------------------------------------------------------
(* Claims about the construction of the autocompleter (SpecBoot) *)

\* C35 (as claimed): for every positive refreshRate the initial
\* lastRefreshTime lies more than refreshRate in the past, and the first
\* Update() invokes UpdateFn.
C35_FirstUpdateRefreshes ==
    /\ IsNeg64(boot.offset)
    /\ Gt64(Neg64(boot.offset), boot.refreshRate)
    /\ boot.updated # <<>> => boot.updated = <<TRUE>>

----------------------------------------------------------------------------
(* Claims about a cluster change during a refresh (SpecRefresh) *)

\* ClusterInfoChanged has stored a new cluster and context, emptied the
\* buckets, forced the refresh and returned
ChangeReturned == runs["ci"] > 0 /\ pc["ci"] = "idle" /\ cluster # ""

\* the bucket the Index call of thread t is writing
Indexing(t) == IndexTree(St, Head(loc[t].jobs).name)

\* C33 (as claimed): once ClusterInfoChanged to another cluster or context
\* has returned, no UpdateFn that began before the change puts a word into
\* the aliases or the namespaces bucket.
C33_NoStaleWords ==
    \A t \in Updaters :
        (/\ ChangeReturned
         /\ loc[t].stale
         /\ pc[t] \in {"ix_delete", "ix_unlock"}
         /\ Head(loc[t].jobs).name \in {"aliases", "namespaces"})
            => Indexing(t).length = 0

----------------------------------------------------------------------------
(* Claims about the two mutexes (SpecReadFair) *)

\* thread t holds a side of p.mx
HoldsMx(t) == mxWriter = t \/ t \in mxReaders

\* the labels at which the next step of a call acquires a mutex
BeforeLock == {"idle", "upd_lock", "upd_need", "ix_lock", "ci_reset", "ci_force"}

\* C36: concurrent Update, Index, Reset, Suggest, ClusterInfoChanged,
\* HistoryChanged and BufferActive calls do not deadlock: a thread about to
\* acquire the refresh mutex or a side of the read-write mutex holds no side
\* of the read-write mutex, and every call that has begun returns.
C36_NoDeadlock ==
    /\ [](\A t \in Threads : pc[t] \in BeforeLock => ~HoldsMx(t))
    /\ \A t \in Threads : (pc[t] # "idle") ~> (pc[t] = "idle")

\* C36 witness: Update() is inside UpdateFn, holding the refresh mutex and
\* waiting for the write side, which ClusterInfoChanged holds in Reset(),
\* while HistoryChanged waits for it too.
C36_Witness ==
    /\ pc["u1"] = "ix_lock"
    /\ refreshMx = "u1"
    /\ pc["ci"] = "ci_unlock"
    /\ mxWriter = "ci"
    /\ pc["hw"] = "ix_lock"

----------------------------------------------------------------------------
(* Claims about the Prompt widget (SpecPrompt) *)

\* C37 (as claimed): after every key event, activation and deactivation the
\* suggest mode of the prompt widget is the mode of the autocompleter, the
\* one last delivered to the buffer's mode listeners.
C37_PromptModeIsListenerMode == ~prompt.pending => prompt.suggestMode = mode

----------------------------------------------------------------------------
(* Claims about the informer Factory (SpecFactory, SpecFactoryFair) *)

\* an informer of ns was accessed less than the idle timeout ago
Accessed(f, ns) ==
    \E inf \in FactInfs :
        /\ inf[1] = ns
        /\ f.informerStats[inf] # ZeroTime
        /\ f.now - f.informerStats[inf] < IdleTimeout

\* C38 (as claimed): the monitor stops the factory of a namespace only when
\* none of the namespace's tracked informers was accessed within the idle
\* timeout; the stopped factory's stop channel is closed, its entry removed,
\* and its stats removed by FactoryStopped.
C38_StopsIdleOnly ==
    [][/\ (fact.mon.pc = "stop" /\ fact'.mon.pc = "stopped") =>
              LET ns == Head(fact.mon.todo)
              IN /\ ~Accessed(fact, ns)
                 /\ ns \notin fact'.factories
                 /\ fact'.stopChan[ns] = 0
                 /\ fact'.chans[fact.stopChan[ns]]
       /\ (fact.mon.pc = "stopped" /\ fact'.mon.pc # "stopped") =>
              LET ns == Head(fact.mon.todo)
              IN /\ ns \notin fact'.namespaceStats
                 /\ \A inf \in FactInfs : inf[1] = ns => fact'.informerStats[inf] = ZeroTime
      ]_vars

\* C34 (as claimed): a Terminate() that has begun returns, with the monitor
\* loop gone, every stop channel closed and no factory left.
C34_TerminateReturns ==
    (fact.host.pc \in {"wait", "sweep"}) ~>
        (/\ fact.host.pc = "done"
         /\ fact.mon.pc \in {"none", "gone"}
         /\ fact.factories = {}
         /\ \A ch \in 1..Len(fact.chans) : fact.chans[ch])

====
